---- MODULE Spec2Model ----
(***************************************************************************)
(* A model of spine-ftp: the control connection (reply parser, reply       *)
(* queue, getResponse), the command catalog and the passive data           *)
(* connection, as written in src/src/connection.ts, src/src/parseList.ts   *)
(* (the command classes) and src/src/index.ts (FtpClient).                  *)
(*                                                                         *)
(* Text is a sequence of one-character strings; CR and LF are the two      *)
(* characters of NEW_LINE.  A word that no regular expression of the code  *)
(* looks into (a path, a feature name, free reply text) is one element.    *)
(***************************************************************************)
EXTENDS Integers, Sequences, FiniteSets, TLC

VARIABLES
    responseBuffer,   \* FtpCommandConnection.responseBuffer : lines not yet parsed
    commandBuffer,    \* FtpCommandConnection.commandBuffer  : text of the reply being built
    responseQueue,    \* FtpCommandConnection.responseQueue  : completed replies
    features,         \* FtpCommandConnection.features
    socket,           \* the control socket: "new", "connecting", "open", "closed"
    tasks,            \* the public operations in progress, one record per caller
    dataConn,         \* the FtpDataConnection created last, and the local file stream of its transfer
    wire,             \* control lines the server has received and not yet answered
    server,           \* the server's side of the session
    usage,            \* how the client is called: "awaited", "persistent", "concurrent", "creating", "session", "timed", "transfers", "listing", "writing"
    client,           \* the FtpClient: "constructed", "connecting", "connected", "failed",
                      \* "exited" (the process ended on an unhandled rejection)
    timeouts,         \* number of reply timeouts so far in the session
    owners,           \* history: for each queued reply, the caller whose line it answers
    stream,           \* the control byte stream the server sends (parser specification)
    pos,              \* number of bytes of stream already passed to onData
    lastIndex,        \* RE_LAST_MOD_TIME.lastIndex: where the next exec of the pattern starts
    timers            \* the clock, and the timers and promise of the getResponse called last

connVars == <<responseBuffer, commandBuffer, responseQueue>>
parseVars == <<stream, pos>>
vars == <<responseBuffer, commandBuffer, responseQueue, features, socket, tasks,
          dataConn, wire, server, usage, client, timeouts, owners, stream, pos,
          lastIndex, timers>>

----------------------------------------------------------------------------
(* Text helpers: what String.split, String.trim and RegExp.exec compute.   *)

CR == "\r"
LF == "\n"
NEW_LINE == <<CR, LF>>

Digits == {"0", "1", "2", "3", "4", "5", "6", "7", "8", "9"}

\* Characters String.prototype.trim removes.
WhiteSpace == {" ", "\t", CR, LF}

\* Characters the regular expression atom "." does not match.
LineTerminators == {CR, LF}

DigitVal(c) ==
    CASE c = "0" -> 0 [] c = "1" -> 1 [] c = "2" -> 2 [] c = "3" -> 3
      [] c = "4" -> 4 [] c = "5" -> 5 [] c = "6" -> 6 [] c = "7" -> 7
      [] c = "8" -> 8 [] c = "9" -> 9

\* parseInt(s, 10) of a non-empty digit string
RECURSIVE ParseIntDigits(_)
ParseIntDigits(s) ==
    IF s = <<>> THEN 0
    ELSE 10 * ParseIntDigits(SubSeq(s, 1, Len(s) - 1)) + DigitVal(s[Len(s)])

\* s.split("\r\n"): cur is the piece being collected
RECURSIVE SplitNewLine(_, _)
SplitNewLine(s, cur) ==
    IF s = <<>> THEN <<cur>>
    ELSE IF Len(s) >= 2 /\ s[1] = CR /\ s[2] = LF
         THEN <<cur>> \o SplitNewLine(SubSeq(s, 3, Len(s)), <<>>)
         ELSE SplitNewLine(Tail(s), Append(cur, s[1]))

\* l.trim() != ""
NotBlank(l) == \E i \in 1..Len(l) : l[i] \notin WhiteSpace

\* the longest run of characters "." matches, starting at index i
RECURSIVE DotPlus(_, _)
DotPlus(l, i) ==
    IF i > Len(l) \/ l[i] \in LineTerminators THEN <<>>
    ELSE <<l[i]>> \o DotPlus(l, i + 1)

\* RE_CMD_LINE.exec(line) for a line that is not blank: the groups the
\* parser reads.  g3 is match[3] (<<>> when the group did not take part),
\* text is match[6] || match[7].
ThreeDigits(l) == Len(l) >= 3 /\ l[1] \in Digits /\ l[2] \in Digits /\ l[3] \in Digits

RE_CMD_LINE(l) ==
    IF ThreeDigits(l) /\ Len(l) >= 5 /\ l[5] \notin LineTerminators
    THEN \* first alternative: ((^\d{3})[^\-]|(^\d{3})(\-))(.+)
         [g3   |-> IF l[4] # "-" THEN SubSeq(l, 1, 3) ELSE <<>>,
          text |-> DotPlus(l, 5)]
    ELSE \* second alternative (.+): leftmost, longest run of "."
         LET first == CHOOSE i \in 1..Len(l) :
                         /\ l[i] \notin LineTerminators
                         /\ \A j \in 1..(i - 1) : l[j] \in LineTerminators
         IN  [g3 |-> <<>>, text |-> DotPlus(l, first)]

----------------------------------------------------------------------------
(* FtpCommandConnection.parseResponse and onData                           *)

SelectNotBlank(ls) == SelectSeq(ls, NotBlank)

\* the while (true) loop of parseResponse over the buffered lines:
\* returns the command buffer left and the replies completed
RECURSIVE ParseLines(_, _, _)
ParseLines(lines, cb, out) ==
    IF lines = <<>> THEN [commandBuffer |-> cb, response |-> out]
    ELSE LET match == RE_CMD_LINE(Head(lines))
             cb2   == cb \o match.text \o NEW_LINE
         IN  IF match.g3 # <<>>
             THEN ParseLines(Tail(lines), <<>>,
                             Append(out, [code    |-> ParseIntDigits(match.g3),
                                          message |-> cb2]))
             ELSE ParseLines(Tail(lines), cb2, out)

parseResponse(rb, cb, data) ==
    ParseLines(rb \o SelectNotBlank(SplitNewLine(data, <<>>)), cb, <<>>)

\* FtpCommandConnection.onData: parse the chunk, queue the completed replies
onData(data) ==
    LET r == parseResponse(responseBuffer, commandBuffer, data)
    IN  /\ responseBuffer' = <<>>
        /\ commandBuffer' = r.commandBuffer
        /\ responseQueue' = responseQueue \o r.response

----------------------------------------------------------------------------
(* Callers, call frames and exceptions.  A public operation is an async    *)
(* function; the commands it sends are frames on the caller's stack.  A    *)
(* frame runs from one await to the next in one step.                      *)

Callers == {1, 2}

\* the callers that may have an operation in progress
ActiveCallers == IF usage = "concurrent" THEN Callers ELSE {1}

NoValue == "undefined"

\* op, arg: the operation and its arguments; stack: its frames; ret: the value
\* the last await gave; result: what the operation settled with.  History of
\* the operation: the lines it wrote, the replies it consumed, and the
\* server's current directory when it started
IdleTask ==
    [op |-> "none", arg |-> NoValue, status |-> "idle", stack |-> <<>>,
     ret |-> NoValue, result |-> NoValue, lines |-> <<>>, replies |-> <<>>,
     cwdBefore |-> <<>>]

\* no getResponse was called yet: now is the time in ms, config is
\* configuration.timeout, interval and timeout are the times at which the
\* timers responseInterval and timeout fire next (0: not set or cleared),
\* promise is the state of the promise getResponse returned
NoTimers == [now |-> 0, config |-> 0, interval |-> 0, timeout |-> 0, promise |-> "none"]

Frame(cmd, pc, arg) ==
    [cmd |-> cmd, pc |-> pc, arg |-> arg, loc |-> NoValue, await |-> "none"]

Exception(kind, code) == [exception |-> kind, code |-> code]

IsException(v, kind) == v.exception = kind

TopOf(T) == T.stack[Len(T.stack)]

Top(t) == TopOf(tasks[t])

\* the caller's top frame is command cmd, not suspended, at place pc
At(t, cmd, pc) ==
    /\ tasks[t].status = "running"
    /\ tasks[t].stack # <<>>
    /\ Top(t).cmd = cmd
    /\ Top(t).pc = pc
    /\ Top(t).await = "none"

SetTop(T, f) == [T EXCEPT !.stack[Len(T.stack)] = f]

Goto(T, pc) == SetTop(T, [TopOf(T) EXCEPT !.pc = pc])

SetLoc(T, v) == SetTop(T, [TopOf(T) EXCEPT !.loc = v])

\* suspend the top frame until the event it awaits resumes it at pc
Suspend(T, what, pc) == SetTop(T, [TopOf(T) EXCEPT !.pc = pc, !.await = what])

\* await connection.send(new cmd(arg)): the frame resumes at pc
Call(T, cmd, arg, pc) ==
    [Suspend(T, "call", pc) EXCEPT !.stack = Append(@, Frame(cmd, "send", arg))]

\* await this.method(arg) of FtpClient: no send() in between
CallMethod(T, method, arg, pc) ==
    [Suspend(T, "call", pc) EXCEPT !.stack = Append(@, Frame(method, "execute", arg))]

\* the top frame returns v to the frame below, or settles the operation
Return(T, v) ==
    LET below == SubSeq(T.stack, 1, Len(T.stack) - 1)
    IN  IF below = <<>>
        THEN [T EXCEPT !.stack = <<>>, !.status = "resolved", !.result = v, !.ret = v]
        ELSE [T EXCEPT !.stack = [below EXCEPT ![Len(below)].await = "none"],
                       !.ret = v]

\* an exception that no frame catches
Unwind_NoCatch(T, e) == [T EXCEPT !.stack = <<>>, !.status = "rejected", !.result = e]

\* the top frame throws e: the frames are left one by one; the only catch
\* clause of the code is the one of FtpClient.fileExists
RECURSIVE Unwind(_, _)
Unwind(T, e) ==
    IF T.stack = <<>>
    THEN [T EXCEPT !.status = "rejected", !.result = e]
    ELSE LET f == TopOf(T)
         IN  IF f.cmd = "fileExists" /\ f.pc = "sized"
                /\ IsException(e, "FtpFileNotFoundException")
             THEN Return(T, FALSE)
             ELSE Unwind([T EXCEPT !.stack = SubSeq(@, 1, Len(@) - 1)], e)

Throw(T, e) == Unwind(T, e)

SetTask(t, T) == tasks' = [tasks EXCEPT ![t] = T]

----------------------------------------------------------------------------
(* FtpCommandConnection.send, write and getResponse                        *)

MaxTimeouts == 1

\* the command classes whose execute is modelled
Commands ==
    {"FtpLoginCommand", "FtpWelcomeCommand", "FtpUserCommand", "FtpPasswordCommand",
     "FtpFeaturesCommand", "FtpOptionCommand", "TransferModeCommand", "CwdCommand",
     "PwdCommand", "SizeCommand", "RenameCommand", "RenameFromCommand",
     "RenameToCommand", "FtpPassiveModeCommand", "FtpListCommand", "StoreCommand",
     "FtpRetrieveFileCommand", "MkDirCommand", "LastModifiedTimeCommand",
     "DeleteDirectoryCommand", "FtpDisconnectCommand", "ChangeModificationTime"}

\* a send that runs command.execute whatever the state of the socket
send_NoCheck(t) ==
    /\ \E cmd \in Commands : At(t, cmd, "send")
    /\ SetTask(t, Goto(tasks[t], "execute"))
    /\ UNCHANGED <<connVars, features, socket, dataConn, wire, server, usage,
                   client, timeouts, owners, parseVars, lastIndex, timers>>

\* send(command): refuses when the socket is destroyed, not writable or
\* still connecting, else runs command.execute
send(t) ==
    /\ \E cmd \in Commands : At(t, cmd, "send")
    /\ IF socket # "open"
       THEN SetTask(t, Throw(tasks[t], Exception("FtpNetworkException", 0)))
       ELSE SetTask(t, Goto(tasks[t], "execute"))
    /\ UNCHANGED <<connVars, features, socket, dataConn, wire, server, usage,
                   client, timeouts, owners, parseVars, lastIndex, timers>>

\* await connection.write(line); await connection.getResponse(): the line
\* goes to the socket and the frame waits for a reply, to resume at pc
Written(T, line, pc) ==
    [Suspend(T, "response", pc) EXCEPT !.lines = Append(@, line)]

write(t, line) == wire' = Append(wire, [line |-> line, from |-> t])

\* a getResponse that takes the reply that arrived last
getResponse_Last(t) ==
    /\ tasks[t].status = "running"
    /\ Top(t).await = "response"
    /\ responseQueue # <<>>
    /\ responseQueue' = SubSeq(responseQueue, 1, Len(responseQueue) - 1)
    /\ owners' = SubSeq(owners, 1, Len(owners) - 1)
    /\ SetTask(t, [SetTop(tasks[t], [Top(t) EXCEPT !.await = "none"])
                     EXCEPT !.ret = responseQueue[Len(responseQueue)],
                            !.replies = Append(@, [code  |-> responseQueue[Len(responseQueue)].code,
                                                   owner |-> owners[Len(owners)]])])
    /\ UNCHANGED <<responseBuffer, commandBuffer, features, socket, dataConn,
                   wire, server, usage, client, timeouts, parseVars, lastIndex, timers>>

\* getResponse: a tick of the polling interval that finds the queue not
\* empty resolves with its head
getResponse(t) ==
    /\ tasks[t].status = "running"
    /\ Top(t).await = "response"
    /\ responseQueue # <<>>
    /\ responseQueue' = Tail(responseQueue)
    /\ owners' = Tail(owners)
    /\ SetTask(t, [SetTop(tasks[t], [Top(t) EXCEPT !.await = "none"])
                     EXCEPT !.ret = Head(responseQueue),
                            !.replies = Append(@, [code  |-> Head(responseQueue).code,
                                                   owner |-> Head(owners)])])
    /\ UNCHANGED <<responseBuffer, commandBuffer, features, socket, dataConn,
                   wire, server, usage, client, timeouts, parseVars, lastIndex, timers>>

\* getResponse: the timeout timer fires before a tick resolved the wait
getResponseTimeout(t) ==
    /\ tasks[t].status = "running"
    /\ Top(t).await = "response"
    /\ timeouts < MaxTimeouts
    /\ timeouts' = timeouts + 1
    /\ SetTask(t, Throw(tasks[t], Exception("FtpTimeoutException", 0)))
    /\ UNCHANGED <<connVars, features, socket, dataConn, wire, server, usage,
                   client, owners, parseVars, lastIndex, timers>>

----------------------------------------------------------------------------
(* The login handshake: FtpCommandConnection.connect and FtpLoginCommand   *)

FeatureNames == {"MDTM", "SIZE", "MLST", "MLSD", "UTF8", "MFMT", "EPSV"}

NoFeatures == [f \in FeatureNames |-> FALSE]

\* FtpCommandConnection's default configuration
DefaultUser == "anonymous"
DefaultPassword == "anonymous"

\* a feature scan that takes every feature for advertised
Includes_AlwaysFound(message, word) == TRUE

\* response.message.includes(word)
Includes(message, word) == \E i \in 1..Len(message) : message[i] = word

\* a step that changes the caller's frames only
OnlyTask ==
    UNCHANGED <<connVars, features, socket, dataConn, wire, server, usage,
                client, timeouts, owners, parseVars, lastIndex, timers>>

\* a step that changes the caller's frames and writes a line
TaskAndWire ==
    UNCHANGED <<connVars, features, socket, dataConn, server, usage, client,
                timeouts, owners, parseVars, lastIndex, timers>>

\* FtpClient.connect -> FtpCommandConnection.connect: the listeners are
\* registered, the socket connects, then the login command is sent
connect(t) ==
    \/ /\ At(t, "connect", "execute")
       /\ socket' = "connecting"
       /\ SetTask(t, Suspend(tasks[t], "socket", "login"))
       /\ UNCHANGED <<connVars, features, dataConn, wire, server, usage, client,
                      timeouts, owners, parseVars, lastIndex, timers>>
    \/ /\ At(t, "connect", "login")
       /\ SetTask(t, Call(tasks[t], "FtpLoginCommand",
                          <<DefaultUser, DefaultPassword>>, "done"))
       /\ OnlyTask
    \/ /\ At(t, "connect", "done")
       /\ SetTask(t, Return(tasks[t], NoValue))
       /\ client' = "connected"
       /\ UNCHANGED <<connVars, features, socket, dataConn, wire, server, usage,
                      timeouts, owners, parseVars, lastIndex, timers>>

FtpLoginCommand(t) ==
    \/ /\ At(t, "FtpLoginCommand", "execute")
       /\ SetTask(t, Call(tasks[t], "FtpWelcomeCommand", NoValue, "user"))
       /\ OnlyTask
    \/ /\ At(t, "FtpLoginCommand", "user")
       /\ SetTask(t, Call(tasks[t], "FtpUserCommand", Top(t).arg[1], "password"))
       /\ OnlyTask
    \/ /\ At(t, "FtpLoginCommand", "password")
       /\ SetTask(t, Call(tasks[t], "FtpPasswordCommand", Top(t).arg[2], "features"))
       /\ OnlyTask
    \/ /\ At(t, "FtpLoginCommand", "features")
       /\ SetTask(t, Call(tasks[t], "FtpFeaturesCommand", NoValue, "assign"))
       /\ OnlyTask
    \/ /\ At(t, "FtpLoginCommand", "assign")
       /\ features' = tasks[t].ret
       /\ IF tasks[t].ret["UTF8"]
          THEN SetTask(t, Call(tasks[t], "FtpOptionCommand", <<"UTF8", "ON">>, "mode"))
          ELSE SetTask(t, Call(tasks[t], "TransferModeCommand", "BINARY", "done"))
       /\ UNCHANGED <<connVars, socket, dataConn, wire, server, usage, client,
                      timeouts, owners, parseVars, lastIndex, timers>>
    \/ /\ At(t, "FtpLoginCommand", "mode")
       /\ SetTask(t, Call(tasks[t], "TransferModeCommand", "BINARY", "done"))
       /\ OnlyTask
    \/ /\ At(t, "FtpLoginCommand", "done")
       /\ SetTask(t, Return(tasks[t], NoValue))
       /\ OnlyTask

FtpWelcomeCommand(t) ==
    \/ /\ At(t, "FtpWelcomeCommand", "execute")
       /\ SetTask(t, Suspend(tasks[t], "response", "response"))
       /\ OnlyTask
    \/ /\ At(t, "FtpWelcomeCommand", "response")
       /\ IF tasks[t].ret.code # 220
          THEN SetTask(t, Throw(tasks[t], Exception("FtpException", 0)))
          ELSE SetTask(t, Return(tasks[t], NoValue))
       /\ OnlyTask

FtpUserCommand(t) ==
    \/ /\ At(t, "FtpUserCommand", "execute")
       /\ write(t, <<"USER", " ", Top(t).arg>>)
       /\ SetTask(t, Written(tasks[t], <<"USER", " ", Top(t).arg>>, "response"))
       /\ TaskAndWire
    \/ /\ At(t, "FtpUserCommand", "response")
       /\ IF tasks[t].ret.code # 331
          THEN SetTask(t, Throw(tasks[t], Exception("FtpException", 0)))
          ELSE SetTask(t, Return(tasks[t], NoValue))
       /\ OnlyTask

\* a password command that does not look at the reply code
FtpPasswordCommand_NoCheck(t) ==
    \/ /\ At(t, "FtpPasswordCommand", "execute")
       /\ write(t, <<"PASS", " ", Top(t).arg>>)
       /\ SetTask(t, Written(tasks[t], <<"PASS", " ", Top(t).arg>>, "response"))
       /\ TaskAndWire
    \/ /\ At(t, "FtpPasswordCommand", "response")
       /\ SetTask(t, Return(tasks[t], NoValue))
       /\ OnlyTask

FtpPasswordCommand(t) ==
    \/ /\ At(t, "FtpPasswordCommand", "execute")
       /\ write(t, <<"PASS", " ", Top(t).arg>>)
       /\ SetTask(t, Written(tasks[t], <<"PASS", " ", Top(t).arg>>, "response"))
       /\ TaskAndWire
    \/ /\ At(t, "FtpPasswordCommand", "response")
       /\ IF tasks[t].ret.code = 530
          THEN SetTask(t, Throw(tasks[t], Exception("FtpAuthorizationException", 530)))
          ELSE SetTask(t, Return(tasks[t], NoValue))
       /\ OnlyTask

FtpFeaturesCommand(t) ==
    \/ /\ At(t, "FtpFeaturesCommand", "execute")
       /\ write(t, <<"FEAT">>)
       /\ SetTask(t, Written(tasks[t], <<"FEAT">>, "response"))
       /\ TaskAndWire
    \/ /\ At(t, "FtpFeaturesCommand", "response")
       /\ IF tasks[t].ret.code # 211
          THEN SetTask(t, Throw(tasks[t], Exception("FtpException", tasks[t].ret.code)))
          ELSE SetTask(t, Return(tasks[t],
                  [f \in FeatureNames |-> Includes(tasks[t].ret.message, f)]))
       /\ OnlyTask

FtpOptionCommand(t) ==
    \/ /\ At(t, "FtpOptionCommand", "execute")
       /\ write(t, <<"OPTS", " ", Top(t).arg[1], " ", Top(t).arg[2]>>)
       /\ SetTask(t, Written(tasks[t],
                  <<"OPTS", " ", Top(t).arg[1], " ", Top(t).arg[2]>>, "response"))
       /\ TaskAndWire
    \/ /\ At(t, "FtpOptionCommand", "response")
       /\ IF tasks[t].ret.code >= 300
          THEN SetTask(t, Throw(tasks[t], Exception("FtpException", tasks[t].ret.code)))
          ELSE SetTask(t, Return(tasks[t], NoValue))
       /\ OnlyTask

\* the line of a transfer mode: TYPE I for BINARY, TYPE A for TEXT
ModeLine(mode) == IF mode = "BINARY" THEN <<"TYPE", " ", "I">> ELSE <<"TYPE", " ", "A">>

TransferModeCommand(t) ==
    \/ /\ At(t, "TransferModeCommand", "execute")
       /\ write(t, ModeLine(Top(t).arg))
       /\ SetTask(t, Written(tasks[t], ModeLine(Top(t).arg), "response"))
       /\ TaskAndWire
    \/ /\ At(t, "TransferModeCommand", "response")
       /\ IF tasks[t].ret.code # 200
          THEN SetTask(t, Throw(tasks[t], Exception("FtpException", 0)))
          ELSE SetTask(t, Return(tasks[t], NoValue))
       /\ OnlyTask

----------------------------------------------------------------------------
(* Commands of one line and one reply, and the FtpClient methods on them   *)

Quote == "\""

\* the result of RegExp.exec: null, or the text of the group that is read
NoMatch == [matched |-> FALSE, group |-> <<>>]
Match(g) == [matched |-> TRUE, group |-> g]

\* RE_PWD.exec(message)[1] for /"(.+)"(?: |$)/: the leftmost opening quote
\* that has a closing one, and the last closing quote it can reach
PwdCloses(m, i) ==
    { j \in (i + 2)..Len(m) :
        /\ m[j] = Quote
        /\ \A k \in (i + 1)..(j - 1) : m[k] \notin LineTerminators
        /\ (j = Len(m) \/ m[j + 1] = " ") }

PwdOpens(m) == { i \in 1..Len(m) : m[i] = Quote /\ PwdCloses(m, i) # {} }

Min(S) == CHOOSE x \in S : \A y \in S : x <= y
Max(S) == CHOOSE x \in S : \A y \in S : x >= y

RE_PWD(m) ==
    IF PwdOpens(m) = {} THEN NoMatch
    ELSE LET i == Min(PwdOpens(m))
         IN  Match(SubSeq(m, i + 1, Max(PwdCloses(m, i)) - 1))

\* the run of digits at the start of s, and parseInt of a text
RECURSIVE LeadingDigits(_)
LeadingDigits(s) ==
    IF s = <<>> \/ s[1] \notin Digits THEN <<>>
    ELSE <<s[1]>> \o LeadingDigits(Tail(s))

ParseInt(s) ==
    IF LeadingDigits(s) = <<>> THEN "NaN" ELSE ParseIntDigits(LeadingDigits(s))

\* path.isAbsolute and path.join of two normalized paths (posix)
IsAbsolute(path) == path # <<>> /\ path[1] = "/"

Join(a, b) == IF a[Len(a)] = "/" THEN a \o b ELSE a \o <<"/">> \o b

CwdCommand(t) ==
    \/ /\ At(t, "CwdCommand", "execute")
       /\ write(t, <<"CWD", " ">> \o Top(t).arg)
       /\ SetTask(t, Written(tasks[t], <<"CWD", " ">> \o Top(t).arg, "response"))
       /\ TaskAndWire
    \/ /\ At(t, "CwdCommand", "response")
       /\ SetTask(t, Return(tasks[t], ~(tasks[t].ret.code >= 300)))
       /\ OnlyTask

PwdCommand(t) ==
    \/ /\ At(t, "PwdCommand", "execute")
       /\ write(t, <<"PWD">>)
       /\ SetTask(t, Written(tasks[t], <<"PWD">>, "response"))
       /\ TaskAndWire
    \/ /\ At(t, "PwdCommand", "response")
       /\ IF tasks[t].ret.code >= 300
          THEN SetTask(t, Throw(tasks[t], Exception("FtpException", 0)))
          ELSE IF ~RE_PWD(tasks[t].ret.message).matched
               THEN SetTask(t, Throw(tasks[t], Exception("TypeError", 0)))
               ELSE SetTask(t, Return(tasks[t], RE_PWD(tasks[t].ret.message).group))
       /\ OnlyTask

SizeCommand(t) ==
    \/ /\ At(t, "SizeCommand", "execute")
       /\ features["SIZE"]
       /\ write(t, <<"SIZE", " ">> \o Top(t).arg)
       /\ SetTask(t, Written(tasks[t], <<"SIZE", " ">> \o Top(t).arg, "response"))
       /\ TaskAndWire
    \/ /\ At(t, "SizeCommand", "execute")
       /\ ~features["SIZE"]
       /\ SetTask(t, Throw(tasks[t], Exception("FtpException", 0)))
       /\ OnlyTask
    \/ /\ At(t, "SizeCommand", "response")
       /\ IF tasks[t].ret.code = 550
          THEN SetTask(t, Throw(tasks[t], Exception("FtpFileNotFoundException", 550)))
          ELSE IF tasks[t].ret.code # 213
               THEN SetTask(t, Throw(tasks[t],
                                     Exception("FtpException", tasks[t].ret.code)))
               ELSE SetTask(t, Return(tasks[t], ParseInt(tasks[t].ret.message)))
       /\ OnlyTask

\* a value passed where the code expects a string
Str(s) == [type |-> "string", text |-> s]
JsNull == [type |-> "null", text |-> <<>>]
JsUndefined == [type |-> "undefined", text |-> <<>>]

\* RenameCommand's constructor: an operand that is undefined, null or empty
\* is refused ("to" is looked at first)
NoOperand(x) == x.type = "undefined" \/ x.type = "null" \/ Len(x.text) = 0

RenameCommand(t) ==
    \/ /\ At(t, "RenameCommand", "execute")
       /\ SetTask(t, Call(tasks[t], "RenameFromCommand", Top(t).arg[1].text, "to"))
       /\ OnlyTask
    \/ /\ At(t, "RenameCommand", "to")
       /\ SetTask(t, Call(tasks[t], "RenameToCommand", Top(t).arg[2].text, "done"))
       /\ OnlyTask
    \/ /\ At(t, "RenameCommand", "done")
       /\ SetTask(t, Return(tasks[t], NoValue))
       /\ OnlyTask

\* a RNFR command that takes any reply for a go-ahead
RenameFromCommand_NoCheck(t) ==
    \/ /\ At(t, "RenameFromCommand", "execute")
       /\ write(t, <<"RNFR", " ">> \o Top(t).arg)
       /\ SetTask(t, Written(tasks[t], <<"RNFR", " ">> \o Top(t).arg, "response"))
       /\ TaskAndWire
    \/ /\ At(t, "RenameFromCommand", "response")
       /\ SetTask(t, Return(tasks[t], NoValue))
       /\ OnlyTask

RenameFromCommand(t) ==
    \/ /\ At(t, "RenameFromCommand", "execute")
       /\ write(t, <<"RNFR", " ">> \o Top(t).arg)
       /\ SetTask(t, Written(tasks[t], <<"RNFR", " ">> \o Top(t).arg, "response"))
       /\ TaskAndWire
    \/ /\ At(t, "RenameFromCommand", "response")
       /\ IF tasks[t].ret.code = 550
          THEN SetTask(t, Throw(tasks[t], Exception("FtpFileNotFoundException", 550)))
          ELSE IF tasks[t].ret.code # 350
               THEN SetTask(t, Throw(tasks[t],
                                     Exception("FtpException", tasks[t].ret.code)))
               ELSE SetTask(t, Return(tasks[t], NoValue))
       /\ OnlyTask

RenameToCommand(t) ==
    \/ /\ At(t, "RenameToCommand", "execute")
       /\ write(t, <<"RNTO", " ">> \o Top(t).arg)
       /\ SetTask(t, Written(tasks[t], <<"RNTO", " ">> \o Top(t).arg, "response"))
       /\ TaskAndWire
    \/ /\ At(t, "RenameToCommand", "response")
       /\ IF tasks[t].ret.code # 250
          THEN SetTask(t, Throw(tasks[t], Exception("FtpException", tasks[t].ret.code)))
          ELSE SetTask(t, Return(tasks[t], NoValue))
       /\ OnlyTask

\* a rename whose command is constructed without a look at the operands
rename_NoCheck(t) ==
    \/ /\ At(t, "rename", "execute")
       /\ SetTask(t, Call(tasks[t], "RenameCommand", Top(t).arg, "done"))
       /\ OnlyTask
    \/ /\ At(t, "rename", "done")
       /\ SetTask(t, Return(tasks[t], tasks[t].ret))
       /\ OnlyTask

\* FtpClient.rename: the RenameCommand is constructed, then sent
rename(t) ==
    \/ /\ At(t, "rename", "execute")
       /\ IF NoOperand(Top(t).arg[2]) \/ NoOperand(Top(t).arg[1])
          THEN SetTask(t, Throw(tasks[t], Exception("FtpException", 0)))
          ELSE SetTask(t, Call(tasks[t], "RenameCommand", Top(t).arg, "done"))
       /\ OnlyTask
    \/ /\ At(t, "rename", "done")
       /\ SetTask(t, Return(tasks[t], tasks[t].ret))
       /\ OnlyTask

\* FtpClient.getFileSize
getFileSize(t) ==
    \/ /\ At(t, "getFileSize", "execute")
       /\ SetTask(t, Call(tasks[t], "SizeCommand", Top(t).arg, "done"))
       /\ OnlyTask
    \/ /\ At(t, "getFileSize", "done")
       /\ SetTask(t, Return(tasks[t], tasks[t].ret))
       /\ OnlyTask

\* FtpClient.fileExists: getFileSize inside try; the catch clause (a
\* FtpFileNotFoundException gives false, any other error is thrown again)
\* is in Unwind
fileExists(t) ==
    \/ /\ At(t, "fileExists", "execute")
       /\ SetTask(t, CallMethod(tasks[t], "getFileSize", Top(t).arg, "sized"))
       /\ OnlyTask
    \/ /\ At(t, "fileExists", "sized")
       /\ SetTask(t, Return(tasks[t], TRUE))
       /\ OnlyTask

\* FtpClient.getCurrentDirectory
getCurrentDirectory(t) ==
    \/ /\ At(t, "getCurrentDirectory", "execute")
       /\ SetTask(t, Call(tasks[t], "PwdCommand", NoValue, "done"))
       /\ OnlyTask
    \/ /\ At(t, "getCurrentDirectory", "done")
       /\ SetTask(t, Return(tasks[t], tasks[t].ret))
       /\ OnlyTask

\* FtpDisconnectCommand.execute
FtpDisconnectCommand(t) ==
    \/ /\ At(t, "FtpDisconnectCommand", "execute")
       /\ write(t, <<"QUIT">>)
       /\ SetTask(t, Written(tasks[t], <<"QUIT">>, "response"))
       /\ TaskAndWire
    \/ /\ At(t, "FtpDisconnectCommand", "response")
       /\ IF tasks[t].ret.code # 221
          THEN SetTask(t, Throw(tasks[t], Exception("FtpException", tasks[t].ret.code)))
          ELSE SetTask(t, Return(tasks[t], NoValue))
       /\ OnlyTask

\* FtpClient.disconnect, through FtpCommandConnection.disconnect
FtpClient_disconnect(t) ==
    \/ /\ At(t, "disconnect", "execute")
       /\ SetTask(t, Call(tasks[t], "FtpDisconnectCommand", NoValue, "done"))
       /\ OnlyTask
    \/ /\ At(t, "disconnect", "done")
       /\ SetTask(t, Return(tasks[t], NoValue))
       /\ OnlyTask

\* FtpClient.setCurrentDirectory
setCurrentDirectory(t) ==
    \/ /\ At(t, "setCurrentDirectory", "execute")
       /\ SetTask(t, Call(tasks[t], "CwdCommand", Top(t).arg, "done"))
       /\ OnlyTask
    \/ /\ At(t, "setCurrentDirectory", "done")
       /\ SetTask(t, Return(tasks[t], tasks[t].ret))
       /\ OnlyTask

\* FtpClient.directoryExists: loc holds currentDir, then <<currentDir, pathExists>>
directoryExists(t) ==
    \/ /\ At(t, "directoryExists", "execute")
       /\ SetTask(t, CallMethod(tasks[t], "getCurrentDirectory", NoValue, "probe"))
       /\ OnlyTask
    \/ /\ At(t, "directoryExists", "probe")
       /\ LET currentDir == tasks[t].ret
              toCheck == IF IsAbsolute(Top(t).arg) THEN Top(t).arg
                         ELSE Join(currentDir, Top(t).arg)
          IN  SetTask(t, Call(SetLoc(tasks[t], currentDir), "CwdCommand", toCheck,
                              "restore"))
       /\ OnlyTask
    \/ /\ At(t, "directoryExists", "restore")
       /\ SetTask(t, CallMethod(SetLoc(tasks[t], <<Top(t).loc, tasks[t].ret>>),
                                "setCurrentDirectory", Top(t).loc, "done"))
       /\ OnlyTask
    \/ /\ At(t, "directoryExists", "done")
       /\ SetTask(t, Return(tasks[t], Top(t).loc[2]))
       /\ OnlyTask

\* connection.features.<name>, read by a command that needs the feature
Advertised_Always(name) == TRUE

Advertised(name) == features[name]

\* s.trim()
RECURSIVE TrimStart(_)
TrimStart(s) ==
    IF s # <<>> /\ s[1] \in WhiteSpace THEN TrimStart(Tail(s)) ELSE s

RECURSIVE TrimEnd(_)
TrimEnd(s) ==
    IF s # <<>> /\ s[Len(s)] \in WhiteSpace THEN TrimEnd(SubSeq(s, 1, Len(s) - 1)) ELSE s

Trim(s) == TrimEnd(TrimStart(s))

\* RE_LAST_MOD_TIME.exec(s) for /^([0-9]{4})([0-9]{2}){5}/gm: the pattern is
\* global, so the search starts at its lastIndex (from), at the first start
\* of a line that fourteen digits follow; found gives the fourteen digits
\* and last the lastIndex the pattern is left with (0 after a failure)
StampStarts(s, from) ==
    { i \in from..(Len(s) - 14) :
        /\ (i = 0 \/ s[i] \in LineTerminators)
        /\ \A k \in 1..14 : s[i + k] \in Digits }

RE_LAST_MOD_TIME(s, from) ==
    IF StampStarts(s, from) = {}
    THEN [found |-> NoMatch, last |-> 0]
    ELSE [found |-> Match(SubSeq(s, Min(StampStarts(s, from)) + 1,
                                    Min(StampStarts(s, from)) + 14)),
          last  |-> Min(StampStarts(s, from)) + 14]

\* the number of days of the month with index m (0 = January) of year y
DaysIn(y, m) ==
    CASE m = 1 -> IF (y % 4 = 0 /\ y % 100 # 0) \/ y % 400 = 0 THEN 29 ELSE 28
      [] m \in {3, 5, 8, 10} -> 30
      [] OTHER -> 31

\* new Date(year, month, day, hours, minutes, seconds) of the six groups,
\* moved by the timezone offset: the UTC fields of the result, month being
\* the calendar month 1..12.  The second argument of Date is the index of
\* the month, from 0: group 2 = 12 is January of the next year; a day past
\* the end of the month runs into the next month; a year 0..99 is taken as
\* 1900 + year.  The day is at least 1 and the local time is taken to exist
DateOf(g) ==
    LET parsed == ParseIntDigits(SubSeq(g, 1, 4))
        index  == ParseIntDigits(SubSeq(g, 5, 6))
        day    == ParseIntDigits(SubSeq(g, 7, 8))
        year   == (IF parsed < 100 THEN 1900 + parsed ELSE parsed) + (index \div 12)
        m      == index % 12
        over   == day > DaysIn(year, m)
    IN  [year    |-> IF over /\ m = 11 THEN year + 1 ELSE year,
         month   |-> IF over THEN ((m + 1) % 12) + 1 ELSE m + 1,
         date    |-> IF over THEN day - DaysIn(year, m) ELSE day,
         hours   |-> ParseIntDigits(SubSeq(g, 9, 10)),
         minutes |-> ParseIntDigits(SubSeq(g, 11, 12)),
         seconds |-> ParseIntDigits(SubSeq(g, 13, 14))]

\* a step that changes the caller's frames and the state of the pattern
OnlyTaskAndPattern ==
    UNCHANGED <<connVars, features, socket, dataConn, wire, server, usage,
                client, timeouts, owners, parseVars, timers>>

LastModifiedTimeCommand(t) ==
    \/ /\ At(t, "LastModifiedTimeCommand", "execute")
       /\ Advertised("MDTM")
       /\ write(t, <<"MDTM", " ">> \o Top(t).arg)
       /\ SetTask(t, Written(tasks[t], <<"MDTM", " ">> \o Top(t).arg, "response"))
       /\ TaskAndWire
    \/ /\ At(t, "LastModifiedTimeCommand", "execute")
       /\ ~Advertised("MDTM")
       /\ SetTask(t, Throw(tasks[t], Exception("FtpException", 0)))
       /\ OnlyTask
    \/ /\ At(t, "LastModifiedTimeCommand", "response")
       /\ tasks[t].ret.code # 213
       /\ IF tasks[t].ret.code = 550
          THEN SetTask(t, Throw(tasks[t], Exception("FtpFileNotFoundException", 550)))
          ELSE SetTask(t, Throw(tasks[t], Exception("FtpException", tasks[t].ret.code)))
       /\ OnlyTask
    \/ /\ At(t, "LastModifiedTimeCommand", "response")
       /\ tasks[t].ret.code = 213
       /\ LET m == RE_LAST_MOD_TIME(Trim(tasks[t].ret.message), lastIndex)
          IN  /\ lastIndex' = m.last
              /\ IF ~m.found.matched
                 THEN SetTask(t, Throw(tasks[t], Exception("TypeError", 0)))
                 ELSE SetTask(t, Return(tasks[t], DateOf(m.found.group)))
       /\ OnlyTaskAndPattern

\* FtpClient.getLastModificationTime
getLastModificationTime(t) ==
    \/ /\ At(t, "getLastModificationTime", "execute")
       /\ SetTask(t, Call(tasks[t], "LastModifiedTimeCommand", Top(t).arg, "done"))
       /\ OnlyTask
    \/ /\ At(t, "getLastModificationTime", "done")
       /\ SetTask(t, Return(tasks[t], tasks[t].ret))
       /\ OnlyTask

\* a getFeatures that stores what it was told in the connection
getFeatures_Assigning(t) ==
    \/ /\ At(t, "getFeatures", "execute")
       /\ SetTask(t, Call(tasks[t], "FtpFeaturesCommand", NoValue, "done"))
       /\ OnlyTask
    \/ /\ At(t, "getFeatures", "done")
       /\ SetTask(t, Return(tasks[t], tasks[t].ret))
       /\ features' = tasks[t].ret
       /\ UNCHANGED <<connVars, socket, dataConn, wire, server, usage, client,
                      timeouts, owners, parseVars, lastIndex, timers>>

\* FtpClient.getFeatures
getFeatures(t) ==
    \/ /\ At(t, "getFeatures", "execute")
       /\ SetTask(t, Call(tasks[t], "FtpFeaturesCommand", NoValue, "done"))
       /\ OnlyTask
    \/ /\ At(t, "getFeatures", "done")
       /\ SetTask(t, Return(tasks[t], tasks[t].ret))
       /\ OnlyTask

\* s.split(sep): cur is the piece being collected
RECURSIVE SplitBy(_, _, _)
SplitBy(s, sep, cur) ==
    IF s = <<>> THEN <<cur>>
    ELSE IF s[1] = sep THEN <<cur>> \o SplitBy(Tail(s), sep, <<>>)
         ELSE SplitBy(Tail(s), sep, Append(cur, s[1]))

\* path.split("/").filter(d => d.trim() !== "")
Segments(path) == SelectSeq(SplitBy(path, "/", <<>>), NotBlank)

\* a name whose last component is the whole of it
LastSegment_Whole(path) == path

\* path.split("/").pop()
LastSegment(path) == SplitBy(path, "/", <<>>)[Len(SplitBy(path, "/", <<>>))]

\* s.substr(n)
Substr(s, n) == SubSeq(s, n + 1, Len(s))

\* what string concatenation makes of the value undefined
UndefinedText == <<"u", "n", "d", "e", "f", "i", "n", "e", "d">>

\* MkDirCommand.execute.  arg is [path, recursive, cwdDir]; loc holds the
\* variables dirs and traverse of the recursive branch.  checkResponse is a
\* nested function declaration: its throw statement reads this.path with
\* this undefined, so a reply other than 257 raises a TypeError
MkDirCommand(t) ==
    \/ /\ At(t, "MkDirCommand", "execute")
       /\ IF Len(Top(t).arg.cwdDir) = 0
          THEN SetTask(t, Call(tasks[t], "CwdCommand", <<"/">>, "branch"))
          ELSE SetTask(t, Goto(tasks[t], "branch"))
       /\ OnlyTask
    \/ /\ At(t, "MkDirCommand", "branch")
       /\ IF ~Top(t).arg.recursive
          THEN SetTask(t, Call(tasks[t], "CwdCommand", Top(t).arg.path, "mkd"))
          ELSE SetTask(t, Goto(SetLoc(tasks[t], [dirs     |-> Segments(Top(t).arg.path),
                                                 traverse |-> <<>>]),
                               "loop"))
       /\ OnlyTask
    \/ /\ At(t, "MkDirCommand", "mkd")
       /\ write(t, <<"MKD", " ">> \o LastSegment(Top(t).arg.path))
       /\ SetTask(t, Written(tasks[t], <<"MKD", " ">> \o LastSegment(Top(t).arg.path),
                             "checked"))
       /\ TaskAndWire
    \/ /\ At(t, "MkDirCommand", "checked")
       /\ IF tasks[t].ret.code = 257
          THEN SetTask(t, Return(tasks[t], NoValue))
          ELSE SetTask(t, Throw(tasks[t], Exception("TypeError", 0)))
       /\ OnlyTask
    \/ /\ At(t, "MkDirCommand", "loop")
       /\ LET dirs     == Top(t).loc.dirs
              shifted  == IF dirs = <<>> THEN UndefinedText ELSE Head(dirs)
              traverse == Top(t).loc.traverse \o <<"/">> \o shifted
              rest     == IF dirs = <<>> THEN <<>> ELSE Tail(dirs)
          IN  SetTask(t, Call(SetLoc(tasks[t], [dirs |-> rest, traverse |-> traverse]),
                              "CwdCommand", Top(t).arg.cwdDir \o traverse, "probed"))
       /\ OnlyTask
    \/ /\ At(t, "MkDirCommand", "probed")
       /\ tasks[t].ret
       /\ SetTask(t, Goto(tasks[t], "loop"))
       /\ OnlyTask
    \/ /\ At(t, "MkDirCommand", "probed")
       /\ ~tasks[t].ret
       /\ write(t, <<"MKD", " ">> \o LastSegment(Top(t).loc.traverse))
       /\ SetTask(t, Written(tasks[t], <<"MKD", " ">> \o LastSegment(Top(t).loc.traverse),
                             "made"))
       /\ TaskAndWire
    \/ /\ At(t, "MkDirCommand", "made")
       /\ IF tasks[t].ret.code = 257
          THEN SetTask(t, Call(tasks[t], "CwdCommand",
                               Top(t).arg.cwdDir \o Top(t).loc.traverse, "entered"))
          ELSE SetTask(t, Throw(tasks[t], Exception("TypeError", 0)))
       /\ OnlyTask
    \/ /\ At(t, "MkDirCommand", "entered")
       /\ LET nextPath == Substr(Top(t).arg.path, Len(Top(t).loc.traverse))
          IN  IF Len(nextPath) # 0
              THEN SetTask(t, Call(tasks[t], "MkDirCommand",
                                   [path      |-> nextPath,
                                    recursive |-> TRUE,
                                    cwdDir    |-> Top(t).arg.cwdDir \o Top(t).loc.traverse],
                                   "done"))
              ELSE SetTask(t, Return(tasks[t], NoValue))
       /\ OnlyTask
    \/ /\ At(t, "MkDirCommand", "done")
       /\ SetTask(t, Return(tasks[t], NoValue))
       /\ OnlyTask

\* FtpClient.createDir: arg is <<path, recursive>>
createDir(t) ==
    \/ /\ At(t, "createDir", "execute")
       /\ IF Len(Top(t).arg[1]) = 0
          THEN SetTask(t, Throw(tasks[t], Exception("FtpException", 0)))
          ELSE SetTask(t, Call(tasks[t], "MkDirCommand",
                               [path |-> Top(t).arg[1], recursive |-> Top(t).arg[2],
                                cwdDir |-> <<>>], "done"))
       /\ OnlyTask
    \/ /\ At(t, "createDir", "done")
       /\ SetTask(t, Return(tasks[t], tasks[t].ret))
       /\ OnlyTask

----------------------------------------------------------------------------
(* The passive data connection and the commands that transfer over it      *)

\* readToEnd: the size of the buffer it starts with
chunkSize == 1024

\* A buffer is kept as the chunks copied into it: buffer.copy puts a whole
\* chunk at the marker or nothing.  A chunk is [id, length]
\* result.copy(target, 0, 0, n): the chunks in the first n bytes
RECURSIVE CopyPrefix(_, _)
CopyPrefix(chunks, n) ==
    IF chunks = <<>> \/ Head(chunks).length > n THEN <<>>
    ELSE <<Head(chunks)>> \o CopyPrefix(Tail(chunks), n - Head(chunks).length)

\* no FtpDataConnection was created yet.  marker, result: the locals of
\* readToEnd; finalBuffer: the buffer its end handler builds; received:
\* history, the chunks the socket delivered
NoDataConn ==
    [state |-> "none", port |-> 0, peerClosed |-> FALSE, thrown |-> FALSE,
     fStream |-> "none", marker |-> 0,
     result |-> [length |-> chunkSize, data |-> <<>>],
     finalBuffer |-> <<>>, received |-> <<>>]

\* RE_EPSV.exec(message)[0] for /([\d]+)/: the first run of digits
RECURSIVE RE_EPSV(_)
RE_EPSV(m) ==
    IF m = <<>> THEN NoMatch
    ELSE IF m[1] \in Digits THEN Match(LeadingDigits(m)) ELSE RE_EPSV(Tail(m))

\* psvConnection.disconnect() -> dispose(): the data socket is destroyed
disconnect == dataConn' = [dataConn EXCEPT !.state = "destroyed"]

OnlyTaskAndData ==
    UNCHANGED <<connVars, features, socket, wire, server, usage, client,
                timeouts, owners, parseVars, lastIndex, timers>>

FtpPassiveModeCommand(t) ==
    \/ /\ At(t, "FtpPassiveModeCommand", "execute")
       /\ write(t, <<"EPSV">>)
       /\ SetTask(t, Written(tasks[t], <<"EPSV">>, "response"))
       /\ TaskAndWire
    \/ /\ At(t, "FtpPassiveModeCommand", "response")
       /\ LET match == RE_EPSV(tasks[t].ret.message)
          IN  IF ~match.matched
              THEN /\ SetTask(t, Throw(tasks[t], Exception("TypeError", 0)))
                   /\ UNCHANGED dataConn
              ELSE IF ParseIntDigits(match.group) <= 0
                   THEN /\ SetTask(t, Throw(tasks[t], Exception("FtpException", 0)))
                        /\ UNCHANGED dataConn
                   ELSE /\ dataConn' = [NoDataConn EXCEPT !.state = "connecting",
                                                          !.port = ParseIntDigits(match.group)]
                        /\ SetTask(t, Suspend(tasks[t], "data", "connected"))
       /\ OnlyTaskAndData
    \/ /\ At(t, "FtpPassiveModeCommand", "connected")
       /\ SetTask(t, Return(tasks[t], "pasvConnection"))
       /\ OnlyTask

\* a listing line that is LIST whatever the server advertised
ListLine_NoFeature(path) == <<"LIST", " ">> \o path

\* the line of a listing: MLSD when the server advertised it, else LIST;
\* the path follows the space also when it is empty
ListLine(path) ==
    IF features["MLSD"] THEN <<"MLSD", " ">> \o path ELSE <<"LIST", " ">> \o path

\* FtpListCommand.execute up to readToEnd.  What follows readToEnd in the
\* code runs when its promise resolves; see DataEnd
FtpListCommand(t) ==
    \/ /\ At(t, "FtpListCommand", "execute")
       /\ SetTask(t, Call(tasks[t], "FtpPassiveModeCommand", NoValue, "list"))
       /\ OnlyTask
    \/ /\ At(t, "FtpListCommand", "list")
       /\ write(t, ListLine(Top(t).arg))
       /\ SetTask(t, Written(tasks[t], ListLine(Top(t).arg), "response"))
       /\ TaskAndWire
    \/ /\ At(t, "FtpListCommand", "response")
       /\ IF tasks[t].ret.code # 150
          THEN /\ disconnect
               /\ SetTask(t, Throw(tasks[t],
                                   Exception("FtpException", tasks[t].ret.code)))
          ELSE /\ UNCHANGED dataConn
               /\ SetTask(t, Suspend(tasks[t], "readToEnd", "parse"))
       /\ OnlyTaskAndData

StoreCommand(t) ==
    \/ /\ At(t, "StoreCommand", "execute")
       /\ SetTask(t, Call(tasks[t], "FtpPassiveModeCommand", NoValue, "stor"))
       /\ OnlyTask
    \/ /\ At(t, "StoreCommand", "stor")
       /\ write(t, <<"STOR", " ">> \o Top(t).arg)
       /\ SetTask(t, Written(tasks[t], <<"STOR", " ">> \o Top(t).arg, "response"))
       /\ TaskAndWire
    \/ /\ At(t, "StoreCommand", "response")
       /\ IF tasks[t].ret.code # 150
          THEN /\ disconnect
               /\ SetTask(t, Throw(tasks[t],
                                   Exception("FtpException", tasks[t].ret.code)))
          ELSE /\ dataConn' = [dataConn EXCEPT !.fStream = "read"]
               /\ SetTask(t, Suspend(tasks[t], "upload", "final"))
       /\ OnlyTaskAndData
    \/ /\ At(t, "StoreCommand", "final")
       /\ SetTask(t, Suspend(tasks[t], "response", "check"))
       /\ OnlyTask
    \/ /\ At(t, "StoreCommand", "check")
       /\ IF tasks[t].ret.code >= 400
          THEN SetTask(t, Throw(tasks[t], Exception("FtpException", tasks[t].ret.code)))
          ELSE SetTask(t, Return(tasks[t], TRUE))
       /\ OnlyTask

\* arg is <<sourceFile, progress>>; loc keeps the code of the reply to RETR
FtpRetrieveFileCommand(t) ==
    \/ /\ At(t, "FtpRetrieveFileCommand", "execute")
       /\ IF Top(t).arg[2]
          THEN SetTask(t, Call(tasks[t], "SizeCommand", Top(t).arg[1], "passive"))
          ELSE SetTask(t, Call(tasks[t], "FtpPassiveModeCommand", NoValue, "retr"))
       /\ OnlyTask
    \/ /\ At(t, "FtpRetrieveFileCommand", "passive")
       /\ SetTask(t, Call(tasks[t], "FtpPassiveModeCommand", NoValue, "retr"))
       /\ OnlyTask
    \/ /\ At(t, "FtpRetrieveFileCommand", "retr")
       /\ write(t, <<"RETR", " ">> \o Top(t).arg[1])
       /\ SetTask(t, Written(tasks[t], <<"RETR", " ">> \o Top(t).arg[1], "response"))
       /\ TaskAndWire
    \/ /\ At(t, "FtpRetrieveFileCommand", "response")
       /\ IF tasks[t].ret.code # 150
          THEN /\ disconnect
               /\ SetTask(t, Throw(tasks[t],
                                   Exception("FtpException", tasks[t].ret.code)))
          ELSE /\ dataConn' = [dataConn EXCEPT !.fStream = "write"]
               /\ SetTask(t, Suspend(SetLoc(tasks[t], tasks[t].ret.code),
                                     "download", "final"))
       /\ OnlyTaskAndData
    \/ /\ At(t, "FtpRetrieveFileCommand", "final")
       /\ SetTask(t, Suspend(tasks[t], "response", "check"))
       /\ OnlyTask
    \/ /\ At(t, "FtpRetrieveFileCommand", "check")
       /\ IF tasks[t].ret.code >= 400
          THEN SetTask(t, Throw(tasks[t], Exception("FtpException", Top(t).loc)))
          ELSE SetTask(t, Return(tasks[t], NoValue))
       /\ OnlyTask

\* FtpClient.getFiles and getDirectories send the listing command (the
\* filter of the entries follows the listing)
getFiles(t) ==
    \/ /\ At(t, "getFiles", "execute")
       /\ SetTask(t, Call(tasks[t], "FtpListCommand", Top(t).arg, "filter"))
       /\ OnlyTask

\* FtpClient.getDirectories sends the listing command, as getFiles does
getDirectories(t) ==
    \/ /\ At(t, "getDirectories", "execute")
       /\ SetTask(t, Call(tasks[t], "FtpListCommand", Top(t).arg, "filter"))
       /\ OnlyTask

\* DeleteDirectoryCommand.execute up to the listing of the directory; loc
\* holds cwd.  What follows the listing runs when it returns; see DataEnd
DeleteDirectoryCommand(t) ==
    \/ /\ At(t, "DeleteDirectoryCommand", "execute")
       /\ SetTask(t, Call(tasks[t], "PwdCommand", NoValue, "probe"))
       /\ OnlyTask
    \/ /\ At(t, "DeleteDirectoryCommand", "probe")
       /\ SetTask(t, Call(SetLoc(tasks[t], tasks[t].ret), "CwdCommand", Top(t).arg,
                          "list"))
       /\ OnlyTask
    \/ /\ At(t, "DeleteDirectoryCommand", "list")
       /\ IF ~tasks[t].ret
          THEN SetTask(t, Throw(tasks[t], Exception("FtpDirectoryNotFoundException", 0)))
          ELSE SetTask(t, Call(tasks[t], "FtpListCommand", <<>>, "files"))
       /\ OnlyTask

\* FtpClient.deleteDirectory: arg is <<path, recursive>>.  The recursive
\* branch starts with the listing of the subdirectories of path
deleteDirectory(t) ==
    \/ /\ At(t, "deleteDirectory", "execute")
       /\ IF ~Top(t).arg[2]
          THEN SetTask(t, Call(tasks[t], "DeleteDirectoryCommand", Top(t).arg[1], "done"))
          ELSE SetTask(t, CallMethod(tasks[t], "getDirectories", Top(t).arg[1],
                                     "children"))
       /\ OnlyTask

\* a upload that sends the command whatever the local file
upload_NoCheck(t) ==
    \/ /\ At(t, "upload", "execute")
       /\ SetTask(t, Call(tasks[t], "StoreCommand", Top(t).arg[1], "done"))
       /\ OnlyTask
    \/ /\ At(t, "upload", "done")
       /\ SetTask(t, Return(tasks[t], tasks[t].ret))
       /\ OnlyTask

\* FtpClient.upload: arg is <<target, local file exists>>; the StoreCommand
\* constructor refuses a local file that does not exist
upload(t) ==
    \/ /\ At(t, "upload", "execute")
       /\ IF ~Top(t).arg[2]
          THEN SetTask(t, Throw(tasks[t], Exception("FtpFileNotFoundException", 0)))
          ELSE SetTask(t, Call(tasks[t], "StoreCommand", Top(t).arg[1], "done"))
       /\ OnlyTask
    \/ /\ At(t, "upload", "done")
       /\ SetTask(t, Return(tasks[t], tasks[t].ret))
       /\ OnlyTask

\* a download that never looks at the target
download_NoCheck(t) ==
    \/ /\ At(t, "download", "execute")
       /\ SetTask(t, Call(tasks[t], "FtpRetrieveFileCommand",
                          <<Top(t).arg[1], Top(t).arg[4]>>, "done"))
       /\ OnlyTask
    \/ /\ At(t, "download", "done")
       /\ SetTask(t, Return(tasks[t], tasks[t].ret))
       /\ OnlyTask

\* FtpClient.download: arg is <<source, overwrite, target exists, progress>>
download(t) ==
    \/ /\ At(t, "download", "execute")
       /\ IF ~Top(t).arg[2] /\ Top(t).arg[3]
          THEN SetTask(t, Throw(tasks[t], Exception("FtpException", 0)))
          ELSE SetTask(t, Call(tasks[t], "FtpRetrieveFileCommand",
                               <<Top(t).arg[1], Top(t).arg[4]>>, "done"))
       /\ OnlyTask
    \/ /\ At(t, "download", "done")
       /\ SetTask(t, Return(tasks[t], tasks[t].ret))
       /\ OnlyTask

----------------------------------------------------------------------------
(* The server and the network: what the client's sockets can observe       *)

DigitChar(d) ==
    CASE d = 0 -> "0" [] d = 1 -> "1" [] d = 2 -> "2" [] d = 3 -> "3"
      [] d = 4 -> "4" [] d = 5 -> "5" [] d = 6 -> "6" [] d = 7 -> "7"
      [] d = 8 -> "8" [] d = 9 -> "9"

\* the three digits of a reply code
CodeText(c) == <<DigitChar(c \div 100), DigitChar((c \div 10) % 10), DigitChar(c % 10)>>

\* the port the fake server of the tests listens on for data connections
FTP_FAKE_DATA_PORT == 9258

\* the directories of the server when the session starts
Dirs == {<<"/">>, <<"/", "foo">>, <<"/", "bar">>}

\* the modification time the server reports: 2018-06-08 23:38:54
ModifyStamp ==
    <<"2", "0", "1", "8", "0", "6", "0", "8", "2", "3", "3", "8", "5", "4">>

\* modify: the modification time of the file the server reports
InitServer ==
    [cwd |-> <<"/">>, dirs |-> Dirs, created |-> 0, advertised |-> <<>>, listening |-> FALSE,
     accepted |-> FALSE, xfer |-> "none", xferFrom |-> 0, modify |-> ModifyStamp]

\* a single-line reply, and the multi-line reply of FEAT
Reply(code, text) == [code |-> code, pre |-> <<>>, text |-> text, list |-> <<>>]

RECURSIVE FeatureLines(_)
FeatureLines(fs) ==
    IF fs = <<>> THEN <<>>
    ELSE <<" ", Head(fs)>> \o NEW_LINE \o FeatureLines(Tail(fs))

FeatReply(fs) ==
    [code |-> 211,
     pre  |-> CodeText(211) \o <<"-", "Features">> \o NEW_LINE \o FeatureLines(fs),
     text |-> <<"End">>,
     list |-> fs]

\* the feature lists a server may advertise
FeatureLists ==
    { <<"MDTM", "SIZE", "MLSD", "MLST", "UTF8", "MFMT", "EPSV">>,
      <<"MDTM", "SIZE", "EPSV">>,
      <<>> }

\* the number of directories the server lets a session create
MaxCreated == 2

\* MKD name: the directory a new name stands for, and whether the server
\* can create it
NewDir(name) == Join(server.cwd, name)

Creatable(name) ==
    /\ name # <<>>
    /\ \A i \in 1..Len(name) : name[i] # "/"
    /\ NewDir(name) \notin server.dirs
    /\ server.created < MaxCreated

Verb(line) == line[1]
Operand(line) == SubSeq(line, 3, Len(line))

TransferVerbs == {"LIST", "MLSD", "RETR", "STOR"}

\* the replies the server may give to a line
ServerReplies(line) ==
    CASE Verb(line) = "(connect)" ->
           {Reply(220, <<"FtpFake", " ", "server">>), Reply(421, <<"busy">>)}
      [] Verb(line) = "USER" -> {Reply(331, <<"password">>), Reply(530, <<"denied">>)}
      [] Verb(line) = "PASS" ->
           {Reply(230, <<"logged">>), Reply(530, <<"bad">>), Reply(500, <<"what">>)}
      [] Verb(line) = "FEAT" ->
           {FeatReply(fs) : fs \in FeatureLists} \cup {Reply(500, <<"what">>)}
      [] Verb(line) = "OPTS" -> {Reply(202, <<"on">>), Reply(501, <<"off">>)}
      [] Verb(line) = "TYPE" -> {Reply(200, <<"binary">>), Reply(504, <<"no">>)}
      [] Verb(line) = "PWD" ->
           {Reply(257, <<Quote>> \o server.cwd \o <<Quote, " ", "current">>),
            Reply(257, <<Quote>> \o server.cwd \o <<Quote>>),
            Reply(550, <<"failed">>)}
      [] Verb(line) = "CWD" ->
           (IF Operand(line) \in server.dirs THEN {Reply(250, <<"changed">>)} ELSE {})
             \cup {Reply(550, <<"failed">>)}
      [] Verb(line) = "SIZE" ->
           {Reply(213, <<"1", "2", "3">>), Reply(550, <<"missing">>),
            Reply(500, <<"what">>)}
      [] Verb(line) = "QUIT" -> {Reply(221, <<"bye">>), Reply(500, <<"what">>)}
      [] Verb(line) = "MDTM" ->
           {Reply(213, server.modify), Reply(550, <<"missing">>), Reply(500, <<"what">>)}
      [] Verb(line) = "MFMT" ->
           {Reply(213, <<"modified">>), Reply(550, <<"missing">>)}
      [] Verb(line) = "MKD" ->
           (IF Creatable(Operand(line)) THEN {Reply(257, <<"created">>)} ELSE {})
             \cup {Reply(550, <<"failed">>)}
      [] Verb(line) = "RNFR" ->
           {Reply(350, <<"ready">>), Reply(550, <<"missing">>), Reply(450, <<"busy">>)}
      [] Verb(line) = "RNTO" -> {Reply(250, <<"renamed">>), Reply(553, <<"refused">>)}
      [] Verb(line) = "EPSV" ->
           {Reply(229, <<"Entering", " ", "(|||">> \o <<"9", "2", "5", "8">> \o <<"|)">>),
            Reply(500, <<"what">>)}
      [] Verb(line) \in TransferVerbs ->
           (IF server.accepted THEN {Reply(150, <<"opening">>)}
            ELSE {Reply(425, <<"no">>)}) \cup {Reply(550, <<"failed">>)}

ReplyChunk(r) == r.pre \o CodeText(r.code) \o <<" ">> \o r.text \o NEW_LINE

\* what answering line with reply r changes at the server
Answered(line, r, from) ==
    CASE Verb(line) = "CWD" /\ r.code = 250 -> [server EXCEPT !.cwd = Operand(line)]
      [] Verb(line) = "MKD" /\ r.code = 257 ->
           [server EXCEPT !.dirs = @ \cup {NewDir(Operand(line))}, !.created = @ + 1]
      [] Verb(line) = "FEAT" /\ r.code = 211 -> [server EXCEPT !.advertised = r.list]
      [] Verb(line) = "EPSV" /\ r.code = 229 ->
           [server EXCEPT !.listening = TRUE, !.accepted = FALSE]
      [] Verb(line) \in TransferVerbs /\ r.code = 150 ->
           [server EXCEPT !.xfer = IF Verb(line) = "STOR" THEN "recv" ELSE "send",
                          !.accepted = FALSE, !.xferFrom = from]
      [] OTHER -> server

\* the chunk arrives on the control socket: onData, and the history of who
\* each queued reply answers
Deliver(chunk, from) ==
    /\ onData(chunk)
    /\ owners' = owners \o [i \in 1..Len(parseResponse(responseBuffer, commandBuffer,
                                                      chunk).response) |-> from]

\* the server answers the oldest line it has received
ServerReply ==
    /\ socket = "open"
    /\ wire # <<>>
    /\ server.xfer = "none"
    /\ \E r \in ServerReplies(Head(wire).line) :
         /\ Deliver(ReplyChunk(r), Head(wire).from)
         /\ server' = Answered(Head(wire).line, r, Head(wire).from)
    /\ wire' = Tail(wire)
    /\ UNCHANGED <<features, socket, tasks, dataConn, usage, client, timeouts,
                   parseVars, lastIndex, timers>>

\* the server finishes its part of the transfer: it closes the data
\* connection after the last byte it sent, or sees the client close it
ServerTransferEnds ==
    /\ server.xfer \in {"send", "recv"}
    /\ server.xfer = "recv" => dataConn.state = "destroyed"
    /\ server' = [server EXCEPT !.xfer = "final"]
    /\ dataConn' = IF server.xfer = "send" /\ dataConn.state = "open"
                   THEN [dataConn EXCEPT !.peerClosed = TRUE]
                   ELSE dataConn
    /\ UNCHANGED <<connVars, features, socket, tasks, wire, usage, client,
                   timeouts, owners, parseVars, lastIndex, timers>>

\* the final completion reply of a transfer
ServerFinalReply ==
    /\ socket = "open"
    /\ server.xfer = "final"
    /\ \E r \in {Reply(226, <<"done">>), Reply(426, <<"aborted">>)} :
         Deliver(ReplyChunk(r), server.xferFrom)
    /\ server' = [server EXCEPT !.xfer = "none"]
    /\ UNCHANGED <<features, socket, tasks, dataConn, wire, usage, client,
                   timeouts, parseVars, lastIndex, timers>>

\* the caller's top frame waits for an event of kind what
Awaits(t, what) ==
    /\ tasks[t].status = "running"
    /\ tasks[t].stack # <<>>
    /\ Top(t).await = what

\* the awaited promise resolves: the frame runs on from its pc
Resume(T) == SetTop(T, [TopOf(T) EXCEPT !.await = "none"])

\* the control socket connects; the server greets
SocketConnected(t) ==
    /\ Awaits(t, "socket")
    /\ socket = "connecting"
    /\ socket' = "open"
    /\ SetTask(t, Resume(tasks[t]))
    /\ wire' = Append(wire, [line |-> <<"(connect)">>, from |-> t])
    /\ UNCHANGED <<connVars, features, dataConn, server, usage, client, timeouts,
                   owners, parseVars, lastIndex, timers>>

\* the control socket fails to connect: _onConnectionError
SocketConnectFails(t) ==
    /\ Awaits(t, "socket")
    /\ socket = "connecting"
    /\ socket' = "closed"
    /\ client' = "failed"
    /\ SetTask(t, Throw(tasks[t], Exception("FtpNetworkException", 0)))
    /\ UNCHANGED <<connVars, features, dataConn, wire, server, usage, timeouts,
                   owners, parseVars, lastIndex, timers>>

\* the server (or the network) closes the control connection: 'end' and
\* 'close' reach onEnd and onClose, which end and destroy the socket
onClose ==
    /\ socket = "open"
    /\ socket' = "closed"
    /\ UNCHANGED <<connVars, features, tasks, dataConn, wire, server, usage, client,
                   timeouts, owners, parseVars, lastIndex, timers>>

\* the data socket connects to the port the server listens on
DataConnected(t) ==
    /\ Awaits(t, "data")
    /\ dataConn.state = "connecting"
    /\ server.listening
    /\ dataConn.port = FTP_FAKE_DATA_PORT
    /\ dataConn' = [dataConn EXCEPT !.state = "open"]
    /\ server' = [server EXCEPT !.listening = FALSE, !.accepted = TRUE]
    /\ SetTask(t, Resume(tasks[t]))
    /\ UNCHANGED <<connVars, features, socket, wire, usage, client, timeouts,
                   owners, parseVars, lastIndex, timers>>

\* the data socket fails to connect: _onConnectionError
DataConnectFails(t) ==
    /\ Awaits(t, "data")
    /\ dataConn.state = "connecting"
    /\ dataConn' = [dataConn EXCEPT !.state = "destroyed"]
    /\ SetTask(t, Throw(tasks[t], Exception("FtpNetworkException", 0)))
    /\ OnlyTaskAndData

\* the data socket emits 'end' (and 'close') after the server closed it.
\* download: the "close" listener disconnects and resolves.  readToEnd:
\* _onEnd is a function declaration called with the socket as this, so
\* this.dispose() throws a TypeError inside the listener: the promise is
\* never settled and the exception is uncaught
DataEnd(t) ==
    /\ Awaits(t, "download") \/ Awaits(t, "readToEnd")
    /\ dataConn.state = "open"
    /\ dataConn.peerClosed
    /\ IF Awaits(t, "download")
       THEN /\ disconnect
            /\ SetTask(t, Resume(tasks[t]))
       ELSE /\ dataConn' = [dataConn EXCEPT
                               !.state = "destroyed", !.thrown = TRUE,
                               !.finalBuffer = CopyPrefix(dataConn.result.data,
                                                          dataConn.marker)]
            /\ UNCHANGED tasks
    /\ UNCHANGED <<connVars, features, socket, wire, server, usage, client,
                   timeouts, owners, parseVars, lastIndex, timers>>

MaxChunks == 3

\* the sizes of the chunks the data socket may deliver
ChunkSizes == {1, 1000, 1024, 1025, 3000}

\* readToEnd's "data" listener: a chunk that does not fit makes the buffer
\* twice as long, and only a chunk that fits is copied to the marker
readToEnd_onData(t) ==
    /\ Awaits(t, "readToEnd")
    /\ dataConn.state = "open"
    /\ ~dataConn.peerClosed
    /\ server.xfer = "send"
    /\ Len(dataConn.received) < MaxChunks
    /\ \E n \in ChunkSizes :
         LET buffer == [id |-> Len(dataConn.received) + 1, length |-> n]
         IN  dataConn' =
               IF dataConn.marker + buffer.length > dataConn.result.length
               THEN [dataConn EXCEPT
                       !.received = Append(@, buffer),
                       !.result = [length |-> dataConn.result.length * 2,
                                   data |-> CopyPrefix(dataConn.result.data,
                                                       dataConn.marker)]]
               ELSE [dataConn EXCEPT
                       !.received = Append(@, buffer),
                       !.result.data = Append(@, buffer),
                       !.marker = @ + buffer.length]
    /\ UNCHANGED <<connVars, features, socket, tasks, wire, server, usage, client,
                   timeouts, owners, parseVars, lastIndex, timers>>

\* the data socket emits 'error' while download or readToEnd listens:
\* the promise is rejected with the error, the socket closes itself
DataSocketError(t) ==
    /\ Awaits(t, "download") \/ Awaits(t, "readToEnd")
    /\ dataConn.state = "open"
    /\ dataConn' = [dataConn EXCEPT !.state = "destroyed"]
    /\ SetTask(t, Throw(tasks[t], Exception("Error", 0)))
    /\ OnlyTaskAndData

\* the local file stream emits 'error' during download or upload: the
\* promise is rejected with the error and the data socket is left as it is
FileStreamError(t) ==
    /\ Awaits(t, "download") \/ Awaits(t, "upload")
    /\ SetTask(t, Throw(tasks[t], Exception("Error", 0)))
    /\ OnlyTask

\* the local file was read to its end during upload: disconnect, resolve
FileStreamEnd(t) ==
    /\ Awaits(t, "upload")
    /\ disconnect
    /\ SetTask(t, Resume(tasks[t]))
    /\ OnlyTaskAndData

----------------------------------------------------------------------------
(* MFMT: ChangeModificationTime and FtpClient.setModificationTime          *)

\* n.toString() of a number n >= 0
RECURSIVE ToDigits(_)
ToDigits(n) ==
    IF n < 10 THEN <<DigitChar(n)>> ELSE Append(ToDigits(n \div 10), DigitChar(n % 10))

\* _.padStart(s, 2, "0")
PadStart2(s) == IF Len(s) < 2 THEN <<"0">> \o s ELSE s

\* formatDate(date): the UTC year, then getUTCMonth(), which is the index
\* of the month from 0, the day, hours, minutes and seconds, each but the
\* year padded to two characters
formatDate(date) ==
    ToDigits(date.year) \o PadStart2(ToDigits(date.month - 1))
      \o PadStart2(ToDigits(date.date)) \o PadStart2(ToDigits(date.hours))
      \o PadStart2(ToDigits(date.minutes)) \o PadStart2(ToDigits(date.seconds))

\* the MFMT line for the arguments <<path, newDate>>
MfmtLine(arg) == <<"MFMT", " ">> \o formatDate(arg[2]) \o <<" ">> \o arg[1]

\* the command asks for the feature MDTM, not MFMT
ChangeModificationTime(t) ==
    \/ /\ At(t, "ChangeModificationTime", "execute")
       /\ Advertised("MDTM")
       /\ write(t, MfmtLine(Top(t).arg))
       /\ SetTask(t, Written(tasks[t], MfmtLine(Top(t).arg), "response"))
       /\ TaskAndWire
    \/ /\ At(t, "ChangeModificationTime", "execute")
       /\ ~Advertised("MDTM")
       /\ SetTask(t, Throw(tasks[t], Exception("FtpException", 0)))
       /\ OnlyTask
    \/ /\ At(t, "ChangeModificationTime", "response")
       /\ IF tasks[t].ret.code # 213
          THEN SetTask(t, Throw(tasks[t], Exception("FtpException", tasks[t].ret.code)))
          ELSE SetTask(t, Return(tasks[t], NoValue))
       /\ OnlyTask

\* FtpClient.setModificationTime
setModificationTime(t) ==
    \/ /\ At(t, "setModificationTime", "execute")
       /\ SetTask(t, Call(tasks[t], "ChangeModificationTime", Top(t).arg, "done"))
       /\ OnlyTask
    \/ /\ At(t, "setModificationTime", "done")
       /\ SetTask(t, Return(tasks[t], tasks[t].ret))
       /\ OnlyTask

\* the timestamps a server may report for the file: the years 2018, 2020
\* and 999, the months January, February, June and December, the days 8
\* and 31 and the 29th of February 2020, at 23:38:54
StampsOf(years, months, days) ==
    { y \o m \o d \o <<"2", "3", "3", "8", "5", "4">> :
        y \in years, m \in months, d \in days }

Stamps ==
    StampsOf({<<"2", "0", "1", "8">>, <<"0", "9", "9", "9">>},
             {<<"0", "1">>, <<"0", "6">>, <<"1", "2">>}, {<<"0", "8">>})
      \cup StampsOf({<<"2", "0", "1", "8">>}, {<<"0", "1">>, <<"1", "2">>},
                    {<<"3", "1">>})
      \cup StampsOf({<<"2", "0", "2", "0">>}, {<<"0", "2">>}, {<<"2", "9">>})

----------------------------------------------------------------------------
(* The caller: the public operations of FtpClient and their arguments      *)

Operations ==
    {"connect", "getCurrentDirectory", "setCurrentDirectory", "directoryExists",
     "fileExists", "getFileSize", "rename", "getFiles", "upload", "download",
     "getDirectories", "deleteDirectory", "getFeatures", "getLastModificationTime"}

\* the operations a persistent caller and concurrent callers use
DirectoryOperations == {"getCurrentDirectory", "setCurrentDirectory"}

OperationsOf(u) ==
    CASE u = "awaited" -> Operations
      [] u = "creating" -> {"createDir"}
      [] u = "session" -> DirectoryOperations \cup {"disconnect"}
      [] u = "transfers" -> {"download", "getFiles", "upload"}
      [] u = "listing" -> {"getFiles"}
      [] u = "writing" ->
           {"getCurrentDirectory", "getFileSize", "getLastModificationTime",
            "setModificationTime"}
      [] OTHER -> DirectoryOperations

FileName == <<"a.txt">>

RenameOperands == {Str(FileName), Str(<<>>), JsNull}

\* the paths createDir is called with
CreatePaths == {<<>>, <<"/", "a">>, <<"/", "a", "/", "b", "/", "c">>}

\* the arguments the caller may pass to an operation
Arguments(op) ==
    CASE op = "setCurrentDirectory" -> {<<"/", "foo">>}
      [] op = "directoryExists" -> {<<"/", "foo">>, <<"bar">>}
      [] op \in {"fileExists", "getFileSize", "getLastModificationTime"} -> {FileName}
      [] op = "getDirectories" -> {<<"/", "foo">>}
      [] op = "deleteDirectory" -> {<<<<"/", "foo">>, r>> : r \in BOOLEAN}
      [] op = "rename" -> RenameOperands \X RenameOperands
      [] op = "getFiles" -> {<<>>, <<"/", "foo">>}
      [] op = "createDir" -> {<<path, r>> : path \in CreatePaths, r \in BOOLEAN}
      [] op = "upload" -> {<<FileName, e>> : e \in BOOLEAN}
      [] op = "setModificationTime" -> {<<FileName, DateOf(s)>> : s \in Stamps}
      [] op = "download" ->
           {<<FileName, o, e, p>> : o \in BOOLEAN, e \in BOOLEAN, p \in BOOLEAN}
      [] OTHER -> {NoValue}

\* A caller that awaits each operation ("awaited") leaves the client alone
\* once an operation failed with a timeout or an input/output error; a
\* "persistent" caller goes on after any failure; "concurrent" callers start
\* operations without awaiting the ones in progress; a "creating" caller
\* awaits each operation and only creates directories; a "session" caller
\* is persistent and also disconnects; a "transfers" caller awaits each
\* operation and only downloads, uploads and lists; a "listing" caller
\* awaits each operation and only lists; a "writing" caller awaits each
\* operation, asks for the current directory, sizes and times and sets
\* times.
GaveUp(t) ==
    /\ tasks[t].status = "rejected"
    /\ tasks[t].result.exception \in {"FtpTimeoutException", "Error"}

\* the caller starts a public operation: connect on a new client, the
\* others once connect has resolved
Start(t) ==
    /\ t \in ActiveCallers
    /\ tasks[t].status # "running"
    /\ usage \in {"awaited", "transfers", "listing", "writing"} => ~GaveUp(t)
    /\ \E op \in OperationsOf(usage) : \E arg \in Arguments(op) :
         /\ IF op = "connect" THEN client = "constructed" ELSE client = "connected"
         /\ client' = IF op = "connect" THEN "connecting" ELSE client
         /\ SetTask(t, [IdleTask EXCEPT !.op = op, !.arg = arg, !.status = "running",
                                        !.stack = <<Frame(op, "execute", arg)>>,
                                        !.cwdBefore = server.cwd])
    /\ UNCHANGED <<connVars, features, socket, dataConn, wire, server, usage,
                   timeouts, owners, parseVars, lastIndex, timers>>

Init ==
    /\ responseBuffer = <<>>
    /\ commandBuffer = <<>>
    /\ responseQueue = <<>>
    /\ features = NoFeatures
    /\ socket = "new"
    /\ tasks = [t \in Callers |-> IdleTask]
    /\ dataConn = NoDataConn
    /\ wire = <<>>
    /\ server = InitServer
    /\ usage = "awaited"
    /\ client = "constructed"
    /\ timeouts = 0
    /\ owners = <<>>
    /\ stream = <<>>
    /\ pos = 0
    /\ lastIndex = 0
    /\ timers = NoTimers

Step(t) ==
    \/ Start(t)
    \/ send(t)
    \/ getResponse(t)
    \/ getResponseTimeout(t)
    \/ connect(t)
    \/ FtpLoginCommand(t)
    \/ FtpWelcomeCommand(t)
    \/ FtpUserCommand(t)
    \/ FtpPasswordCommand(t)
    \/ FtpFeaturesCommand(t)
    \/ FtpOptionCommand(t)
    \/ TransferModeCommand(t)
    \/ CwdCommand(t)
    \/ PwdCommand(t)
    \/ SizeCommand(t)
    \/ RenameCommand(t)
    \/ RenameFromCommand(t)
    \/ RenameToCommand(t)
    \/ rename(t)
    \/ getFileSize(t)
    \/ fileExists(t)
    \/ getCurrentDirectory(t)
    \/ setCurrentDirectory(t)
    \/ directoryExists(t)
    \/ FtpPassiveModeCommand(t)
    \/ FtpListCommand(t)
    \/ StoreCommand(t)
    \/ FtpRetrieveFileCommand(t)
    \/ getFiles(t)
    \/ upload(t)
    \/ download(t)
    \/ getDirectories(t)
    \/ DeleteDirectoryCommand(t)
    \/ deleteDirectory(t)
    \/ LastModifiedTimeCommand(t)
    \/ getLastModificationTime(t)
    \/ getFeatures(t)
    \/ SocketConnected(t)
    \/ SocketConnectFails(t)
    \/ DataConnected(t)
    \/ DataConnectFails(t)
    \/ DataEnd(t)
    \/ DataSocketError(t)
    \/ FileStreamError(t)
    \/ FileStreamEnd(t)

Next ==
    \/ \E t \in Callers : Step(t)
    \/ ServerReply
    \/ ServerTransferEnds
    \/ ServerFinalReply
    \/ onClose

Spec == Init /\ [][Next]_vars

----------------------------------------------------------------------------
(* The login handshake (C4, C5)                                            *)

\* the codes of the replies the caller's operation has consumed so far
Codes(t) == [i \in 1..Len(tasks[t].replies) |-> tasks[t].replies[i].code]

IsPrefix(a, b) == Len(a) <= Len(b) /\ a = SubSeq(b, 1, Len(a))

Range(f) == {f[i] : i \in DOMAIN f}

UserLine == <<"USER", " ", DefaultUser>>
PassLine == <<"PASS", " ", DefaultPassword>>
OptsLine == <<"OPTS", " ", "UTF8", " ", "ON">>
TypeLine == <<"TYPE", " ", "I">>

\* the lines of a complete login, with and without OPTS UTF8 ON
LoginLines(utf8) ==
    IF utf8 THEN <<UserLine, PassLine, <<"FEAT">>, OptsLine, TypeLine>>
    ELSE <<UserLine, PassLine, <<"FEAT">>, TypeLine>>

\* C4: connect writes USER, PASS, FEAT, OPTS UTF8 ON, TYPE I in this order,
\* each line after the reply to the previous one was consumed; OPTS UTF8 ON
\* is written only when the feature list advertised UTF8; and once the
\* server has answered 220, 331, 230, 211 with UTF8, 2xx, 200 and connect
\* resolved, exactly these five lines were written and the feature set holds
\* true for exactly the advertised features.
C4_LoginOrder ==
    \A t \in Callers :
      tasks[t].op = "connect" =>
        /\ \E utf8 \in BOOLEAN : IsPrefix(tasks[t].lines, LoginLines(utf8))
        /\ Len(tasks[t].lines) <= Len(tasks[t].replies)
        /\ OptsLine \in Range(tasks[t].lines) => "UTF8" \in Range(server.advertised)
        /\ ( /\ Len(Codes(t)) = 6
             /\ SubSeq(Codes(t), 1, 4) = <<220, 331, 230, 211>>
             /\ Codes(t)[5] \in 200..299 /\ Codes(t)[6] = 200
             /\ "UTF8" \in Range(server.advertised) )
           => /\ tasks[t].lines = LoginLines(TRUE)
              /\ tasks[t].status # "rejected"
              /\ \A f \in FeatureNames :
                   features[f] = (f \in Range(server.advertised))

\* a login that went through all five lines
C4_Witness ==
    \E t \in Callers :
      /\ tasks[t].op = "connect"
      /\ tasks[t].status = "resolved"
      /\ tasks[t].lines = LoginLines(TRUE)
      /\ features["UTF8"] /\ features["MLSD"]

\* C5: a greeting other than 220 leaves nothing written; a reply to USER
\* other than 331 leaves USER the only line written; a reply 530 to PASS
\* leaves USER and PASS the only lines written and connect fails with an
\* authorization error; in each case connect does not resolve.
C5_LoginAborts ==
    \A t \in Callers :
      tasks[t].op = "connect" =>
        /\ (Len(Codes(t)) >= 1 /\ Codes(t)[1] # 220)
           => /\ tasks[t].lines = <<>>
              /\ tasks[t].status # "resolved"
              /\ tasks[t].status = "running" => Len(Codes(t)) = 1
        /\ (Len(Codes(t)) >= 2 /\ Codes(t)[2] # 331)
           => /\ tasks[t].lines = <<UserLine>>
              /\ tasks[t].status # "resolved"
              /\ tasks[t].status = "running" => Len(Codes(t)) = 2
        /\ (Len(Codes(t)) >= 3 /\ Codes(t)[3] = 530)
           => /\ tasks[t].lines = <<UserLine, PassLine>>
              /\ tasks[t].status # "resolved"
              /\ tasks[t].status = "running" => Len(Codes(t)) = 3
              /\ tasks[t].status = "rejected"
                 => tasks[t].result.exception = "FtpAuthorizationException"

\* a login refused at the password
C5_Witness ==
    \E t \in Callers :
      /\ tasks[t].op = "connect"
      /\ tasks[t].status = "rejected"
      /\ Codes(t) = <<220, 331, 530>>
      /\ tasks[t].result.exception = "FtpAuthorizationException"

\* C31: a reply to PASS with a code other than 230 ends the login: FEAT is
\* never written and connect does not resolve.
C31_OnlyLoggedInPasses ==
    \A t \in Callers :
      (tasks[t].op = "connect" /\ Len(Codes(t)) >= 3 /\ Codes(t)[3] # 230)
        => /\ <<"FEAT">> \notin Range(tasks[t].lines)
           /\ tasks[t].status # "resolved"

----------------------------------------------------------------------------
(* Existence probes and rename (C7 - C10)                                  *)

Finished(t) == tasks[t].status \in {"resolved", "rejected"}

\* the directory directoryExists probes: the path, or the path joined to the
\* current directory when it is relative
ProbedDirectory(t) ==
    IF IsAbsolute(tasks[t].arg) THEN tasks[t].arg
    ELSE Join(tasks[t].cwdBefore, tasks[t].arg)

\* C7: whenever the initial PWD of directoryExists succeeded, on every exit
\* (a result, or an error raised by the CWD probe) the lines written are
\* exactly PWD, CWD <p>, CWD <directory returned by PWD>.
C7_RestoresDirectory ==
    \A t \in Callers :
      (tasks[t].op = "directoryExists" /\ Finished(t) /\ Len(tasks[t].lines) >= 2)
        => tasks[t].lines = << <<"PWD">>,
                               <<"CWD", " ">> \o ProbedDirectory(t),
                               <<"CWD", " ">> \o tasks[t].cwdBefore >>

SizeLine(t) == <<"SIZE", " ">> \o tasks[t].arg

FileNotFound(t) ==
    /\ tasks[t].status = "rejected"
    /\ tasks[t].result.exception = "FtpFileNotFoundException"

RnfrLine(t) == <<"RNFR", " ">> \o tasks[t].arg[1].text
RntoLine(t) == <<"RNTO", " ">> \o tasks[t].arg[2].text

\* C9: rename writes RNTO only after RNFR was answered 350.  A reply to RNFR
\* other than 350 makes rename fail with RNFR the only line written; replies
\* 350 and 250 make it succeed with exactly RNFR <from>, RNTO <to> written.
C9_RenameOrder ==
    \A t \in Callers :
      tasks[t].op = "rename" =>
        /\ IsPrefix(tasks[t].lines, <<RnfrLine(t), RntoLine(t)>>)
        /\ Len(tasks[t].lines) = 2 => (Len(Codes(t)) >= 1 /\ Codes(t)[1] = 350)
        /\ (Len(Codes(t)) >= 1 /\ Codes(t)[1] # 350)
           => /\ tasks[t].lines = <<RnfrLine(t)>>
              /\ tasks[t].status # "resolved"
              /\ tasks[t].status = "running" => Len(Codes(t)) = 1
        /\ Codes(t) = <<350, 250>>
           => /\ tasks[t].lines = <<RnfrLine(t), RntoLine(t)>>
              /\ tasks[t].status # "rejected"
        /\ tasks[t].status = "resolved" => Codes(t) = <<350, 250>>

\* a rename that went through, and one stopped at RNFR
C9_Witness ==
    \E t \in Callers :
      /\ tasks[t].op = "rename"
      /\ tasks[t].status = "resolved"
      /\ tasks[t].lines = <<RnfrLine(t), RntoLine(t)>>
      /\ Codes(t) = <<350, 250>>

InvalidRename(t) ==
    /\ tasks[t].op = "rename"
    /\ NoOperand(tasks[t].arg[1]) \/ NoOperand(tasks[t].arg[2])

\* C10: a rename with an empty or null operand is rejected by the first
\* step it takes, with no line written and no reply consumed, and that step
\* leaves the reply queue, the parser buffers, the sockets, the feature set
\* and the server untouched.
C10_InvalidRenameRejected ==
    [][\A t \in Callers :
         (InvalidRename(t) /\ tasks[t].status = "running" /\ tasks'[t] # tasks[t])
           => /\ tasks'[t].status = "rejected"
              /\ tasks'[t].lines = <<>>
              /\ tasks'[t].replies = <<>>
              /\ UNCHANGED <<connVars, features, socket, dataConn, wire, server>>]_vars

\* a rename with an empty operand, rejected
C10_Witness ==
    \E t \in Callers :
      /\ InvalidRename(t)
      /\ tasks[t].status = "rejected"
      /\ tasks[t].arg[1] = Str(<<>>)
      /\ tasks[t].lines = <<>>

----------------------------------------------------------------------------
(* The data connection of a listing or transfer (C6)                       *)

TransferOperations == {"getFiles", "upload", "download"}

\* the operation wrote its LIST, MLSD, STOR or RETR line, which it does
\* once the data connection it asked for is open
TransferLineWritten(t) ==
    \E i \in 1..Len(tasks[t].lines) : Verb(tasks[t].lines[i]) \in TransferVerbs

\* C6: once a listing or transfer command has returned, with a result or an
\* error, the data connection it opened is no longer open.
C6_DataChannelReleased ==
    \A t \in Callers :
      ( /\ tasks[t].op \in TransferOperations
        /\ Finished(t)
        /\ TransferLineWritten(t) )
        => dataConn.state # "open"

----------------------------------------------------------------------------
(* Directory removal, features, listings and local files (C14 - C20)       *)

\* the listing the caller waits for ended in an error of the "close"
\* handler: nothing settles the promise of readToEnd any more
ListingLost(t) == Awaits(t, "readToEnd") /\ dataConn.thrown

CwdLine(path) == <<"CWD", " ">> \o path

RmdLine(path) == <<"RMD", " ">> \o path

\* C14: deleteDirectory(path, true) never waits for a listing that cannot
\* arrive, and when it resolves RMD <path> was written and the server no
\* longer has the directory.
C14_RecursiveDeleteRemoves ==
    \A t \in Callers :
      (tasks[t].op = "deleteDirectory" /\ tasks[t].arg[2])
        => /\ ~ListingLost(t)
           /\ tasks[t].status = "resolved"
                => /\ RmdLine(tasks[t].arg[1]) \in Range(tasks[t].lines)
                   /\ tasks[t].arg[1] \notin server.dirs

\* PWD, CWD <path>, EPSV, the listing line, n DELE lines, CDUP, RMD <path>,
\* CWD <saved>: ls is a prefix of that order
DeleteOrder(ls, path, saved) ==
    /\ IsPrefix(SubSeq(ls, 1, Min({4, Len(ls)})),
                << <<"PWD">>, CwdLine(path), <<"EPSV">>, ListLine(<<>>) >>)
    /\ \E n \in 0..Len(ls) :
         /\ \A i \in 5..Min({4 + n, Len(ls)}) : Verb(ls[i]) = "DELE"
         /\ IsPrefix(SubSeq(ls, 5 + n, Len(ls)),
                     << <<"CDUP">>, RmdLine(path), CwdLine(saved) >>)

\* C15: deleteDirectory(path, false) writes its lines in the order PWD,
\* CWD <path>, EPSV, listing, DELE per file, CDUP, RMD <path>, CWD <saved>,
\* each after the reply to the one before was consumed, and goes on after
\* the listing; when the CWD probe is answered 300 or more only PWD and
\* CWD <path> are written and the failure is FtpDirectoryNotFoundException.
C15_NonRecursiveDeleteOrder ==
    \A t \in Callers :
      (tasks[t].op = "deleteDirectory" /\ ~tasks[t].arg[2])
        => /\ DeleteOrder(tasks[t].lines, tasks[t].arg[1], tasks[t].cwdBefore)
           /\ Len(tasks[t].lines) <= Len(tasks[t].replies) + 1
           /\ (Len(tasks[t].replies) >= 2 /\ Codes(t)[2] >= 300)
                => /\ tasks[t].lines = << <<"PWD">>, CwdLine(tasks[t].arg[1]) >>
                   /\ tasks[t].status # "resolved"
                   /\ tasks[t].status = "rejected"
                        => tasks[t].result.exception = "FtpDirectoryNotFoundException"
           /\ ~ListingLost(t)

\* C40: once the CWD into the directory was answered 250, a non-recursive
\* deleteDirectory that has returned, or has failed because the server
\* refused one of its later lines while the control connection stayed
\* open, wrote CWD <saved directory> as its last line, and the server's
\* current directory is the one before the call.
C40_DeleteRestoresCwd ==
    \A t \in Callers :
      ( /\ tasks[t].op = "deleteDirectory"
        /\ ~tasks[t].arg[2]
        /\ tasks[t].status \in {"resolved", "rejected"}
        /\ tasks[t].status = "rejected" => tasks[t].result.exception = "FtpException"
        /\ socket = "open"
        /\ Len(Codes(t)) >= 2
        /\ Codes(t)[2] = 250 )
      => /\ tasks[t].lines[Len(tasks[t].lines)] = CwdLine(tasks[t].cwdBefore)
         /\ server.cwd = tasks[t].cwdBefore

\* C16: a step changes connection.features only when it is the assignment
\* of the login handshake; no step of getFeatures changes it.
C16_FeaturesSetByLogin ==
    [][features' # features
         => \E t \in Callers :
              /\ tasks[t].op = "connect"
              /\ At(t, "FtpLoginCommand", "assign")]_vars

\* getFeatures returned a feature set that differs from connection.features
C16_Witness ==
    \E t \in Callers :
      /\ tasks[t].op = "getFeatures"
      /\ tasks[t].status = "resolved"
      /\ tasks[t].result # features

\* the feature an operation depends on
Gate(op) == IF op = "getFileSize" THEN "SIZE" ELSE "MDTM"

\* C17: getFileSize without SIZE and getLastModificationTime without MDTM
\* among the features never write a line, never consume a reply and never
\* resolve.
C17_FeatureGate ==
    \A t \in Callers :
      ( /\ tasks[t].op \in {"getFileSize", "getLastModificationTime"}
        /\ ~features[Gate(tasks[t].op)] )
        => /\ tasks[t].lines = <<>>
           /\ tasks[t].replies = <<>>
           /\ tasks[t].status # "resolved"

\* getLastModificationTime failed on a connection without MDTM
C17_Witness ==
    \E t \in Callers :
      /\ tasks[t].op = "getLastModificationTime"
      /\ ~features["MDTM"]
      /\ tasks[t].status = "rejected"
      /\ tasks[t].result.exception = "FtpException"
      /\ tasks[t].lines = <<>>

\* the entries of the listing of the server's directory, and those of a type
ListedEntries ==
    << [type |-> "cdir", name |-> "."], [type |-> "pdir", name |-> ".."],
       [type |-> "file", name |-> "steam.dll"], [type |-> "dir", name |-> "steamapps"] >>

HasType(e, type) == e.type = type

OfType(type) == SelectSeq(ListedEntries, LAMBDA e : HasType(e, type))

\* C18: getFiles and getDirectories never wait for a listing that cannot
\* arrive, and resolve to the entries of type file, respectively dir, in
\* the order of the listing.
C18_ListingFiltered ==
    \A t \in Callers :
      tasks[t].op \in {"getFiles", "getDirectories"}
        => /\ ~ListingLost(t)
           /\ tasks[t].status = "resolved"
                => tasks[t].result =
                     OfType(IF tasks[t].op = "getFiles" THEN "file" ELSE "dir")

MissingLocalFile(t) == tasks[t].op = "upload" /\ ~tasks[t].arg[2]

\* C19: the first step of an upload of a local file that does not exist
\* rejects it with FtpFileNotFoundException, with no line written and no
\* reply consumed, and leaves the control connection, the data connection,
\* the bytes in flight and the server untouched.
C19_UploadNeedsLocalFile ==
    [][\A t \in Callers :
         (MissingLocalFile(t) /\ tasks[t].status = "running" /\ tasks'[t] # tasks[t])
           => /\ tasks'[t].status = "rejected"
              /\ tasks'[t].result.exception = "FtpFileNotFoundException"
              /\ tasks'[t].lines = <<>>
              /\ tasks'[t].replies = <<>>
              /\ UNCHANGED <<connVars, features, socket, dataConn, wire, server>>]_vars

\* an upload of a missing local file, rejected with no data connection
C19_Witness ==
    \E t \in Callers :
      /\ MissingLocalFile(t)
      /\ tasks[t].status = "rejected"
      /\ tasks[t].result.exception = "FtpFileNotFoundException"
      /\ tasks[t].lines = <<>>
      /\ dataConn.state = "none"

TargetInTheWay(t) ==
    tasks[t].op = "download" /\ ~tasks[t].arg[2] /\ tasks[t].arg[3]

\* C20: the first step of a download onto an existing target without
\* overwrite rejects it with FtpException, with no line written and no
\* reply consumed, and leaves the control connection, the data connection
\* with its file stream, the bytes in flight and the server untouched.
C20_DownloadKeepsTarget ==
    [][\A t \in Callers :
         (TargetInTheWay(t) /\ tasks[t].status = "running" /\ tasks'[t] # tasks[t])
           => /\ tasks'[t].status = "rejected"
              /\ tasks'[t].result.exception = "FtpException"
              /\ tasks'[t].lines = <<>>
              /\ tasks'[t].replies = <<>>
              /\ UNCHANGED <<connVars, features, socket, dataConn, wire, server>>]_vars

\* a download onto an existing target, rejected with the target unopened
C20_Witness ==
    \E t \in Callers :
      /\ TargetInTheWay(t)
      /\ tasks[t].status = "rejected"
      /\ tasks[t].result.exception = "FtpException"
      /\ tasks[t].lines = <<>>
      /\ dataConn.fStream = "none"

----------------------------------------------------------------------------
(* A closed control socket, and the result of CWD (C22, C27)               *)

\* the checks an operation makes on its arguments before it calls send
RejectsArguments(t) ==
    \/ MissingLocalFile(t)
    \/ TargetInTheWay(t)
    \/ InvalidRename(t)

\* no command of the operation has passed the check of send: send runs
\* command.execute up to its first await without a break
NotYetSent(t) ==
    /\ tasks[t].lines = <<>>
    /\ \A i \in 1..Len(tasks[t].stack) :
         tasks[t].stack[i].cmd \in Commands => tasks[t].stack[i].pc = "send"

C27_MissingDirectoryRaises ==
    \A t \in Callers :
      ( /\ tasks[t].op = "setCurrentDirectory"
        /\ tasks[t].replies # <<>>
        /\ Codes(t)[1] >= 300 )
        => tasks[t].status # "resolved"

----------------------------------------------------------------------------
(* Callers that go on after a timeout, and callers that do not await (C1,  *)
(* C2): the session starts logged in, and uses PWD and CWD                 *)

FullFeatureList == <<"MDTM", "SIZE", "MLSD", "MLST", "UTF8", "MFMT", "EPSV">>

\* the record of caller 1's connect, resolved after a complete login
LoggedInTask ==
    [IdleTask EXCEPT !.op = "connect", !.status = "resolved",
                     !.lines = LoginLines(TRUE),
                     !.replies = [i \in 1..6 |->
                                    [code |-> <<220, 331, 230, 211, 202, 200>>[i],
                                     owner |-> 1]],
                     !.cwdBefore = <<"/">>]

\* the state after connect resolved against the server srv, with the
\* features fs, the clock and the timers tm
LoggedInWith(srv, fs, tm) ==
    /\ responseBuffer = <<>>
    /\ commandBuffer = <<>>
    /\ responseQueue = <<>>
    /\ features = fs
    /\ socket = "open"
    /\ tasks = [t \in Callers |-> IF t = 1 THEN LoggedInTask ELSE IdleTask]
    /\ dataConn = NoDataConn
    /\ wire = <<>>
    /\ server = srv
    /\ client = "connected"
    /\ timeouts = 0
    /\ owners = <<>>
    /\ stream = <<>>
    /\ pos = 0
    /\ lastIndex = 0
    /\ timers = tm

\* the state after connect resolved against the server srv
LoggedInOn(srv) == LoggedInWith(srv, [f \in FeatureNames |-> TRUE], NoTimers)

\* the state after connect resolved against a server with every feature
LoggedIn == LoggedInOn([InitServer EXCEPT !.advertised = FullFeatureList])

StepDirectory(t) ==
    \/ Start(t)
    \/ send(t)
    \/ getResponse(t)
    \/ CwdCommand(t)
    \/ PwdCommand(t)
    \/ getCurrentDirectory(t)
    \/ setCurrentDirectory(t)

\* every reply arrives in time
NextConc ==
    \/ \E t \in Callers : StepDirectory(t)
    \/ ServerReply

\* a reply may come after the timeout of the wait for it
NextStray ==
    \/ NextConc
    \/ \E t \in Callers : getResponseTimeout(t)

InitStray == LoggedIn /\ usage = "persistent"

SpecStray == InitStray /\ [][NextStray]_vars

InitConc == LoggedIn /\ usage = "concurrent"

SpecConc == InitConc /\ [][NextConc]_vars

\* C23: the reply queue changes only by replies appended at its tail, or
\* by the removal of its head, which goes as the result of getResponse to
\* one waiting caller and to no other.
C23_QueueIsFifo ==
    [][responseQueue' # responseQueue
         => \/ /\ Len(responseQueue') > Len(responseQueue)
               /\ IsPrefix(responseQueue, responseQueue')
               /\ tasks' = tasks
            \/ /\ responseQueue' = Tail(responseQueue)
               /\ owners' = Tail(owners)
               /\ \E t \in Callers :
                    /\ Awaits(t, "response")
                    /\ tasks'[t].replies =
                         Append(tasks[t].replies, [code  |-> Head(responseQueue).code,
                                                   owner |-> Head(owners)])
                    /\ tasks'[t].ret = Head(responseQueue)
                    /\ \A u \in Callers \ {t} : tasks'[u] = tasks[u]]_vars

\* a caller has taken the first of two replies that were queued together,
\* the second is still in the queue
C23_Witness ==
    \E t \in Callers :
      /\ tasks[t].status = "running"
      /\ tasks[t].replies # <<>>
      /\ responseQueue # <<>>
      /\ Head(owners) # tasks[t].replies[Len(tasks[t].replies)].owner

\* C1: commands on one control channel are serialized.  While two
\* operations are in progress at most one of them has written a line or
\* consumed a reply, and every reply an operation consumes answers a line
\* that this operation wrote.
C1_Serialized ==
    /\ \A t \in Callers, u \in Callers :
         ( /\ t # u
           /\ tasks[t].status = "running"
           /\ tasks[u].status = "running" )
         => \/ tasks[t].lines = <<>> /\ tasks[t].replies = <<>>
            \/ tasks[u].lines = <<>> /\ tasks[u].replies = <<>>
    /\ \A t \in Callers :
         \A i \in 1..Len(tasks[t].replies) : tasks[t].replies[i].owner = t

\* C2: against a server that sends one reply per line, the reply queue is
\* empty whenever an operation has returned successfully.
C2_NoResidue ==
    \A t \in Callers :
      (tasks[t].op \in DirectoryOperations /\ tasks[t].status = "resolved")
        => responseQueue = <<>>

----------------------------------------------------------------------------
(* A session that may lose its control connection, and that ends with      *)
(* QUIT (C21, C26, C29)                                                    *)

StepSession(t) ==
    \/ StepDirectory(t)
    \/ getResponseTimeout(t)
    \/ FtpDisconnectCommand(t)
    \/ FtpClient_disconnect(t)

NextSession ==
    \/ \E t \in Callers : StepSession(t)
    \/ ServerReply
    \/ onClose

InitSession == LoggedIn /\ usage = "session"

SpecSession == InitSession /\ [][NextSession]_vars

\* C21: a wait in getResponse that is pending on a closed control socket
\* with no reply queued ends only by failing with a Network error.
C21_CloseFailsWaiter ==
    [][\A t \in Callers :
         ( /\ Awaits(t, "response")
           /\ socket = "closed"
           /\ responseQueue = <<>>
           /\ tasks'[t].status # "running" \/ ~Awaits(t, "response")' )
           => /\ tasks'[t].status = "rejected"
              /\ tasks'[t].result.exception = "FtpNetworkException"]_vars

\* C26: disconnect writes QUIT and nothing else, resolves only on reply
\* 221, and once it has resolved the control socket is no longer open.
C26_DisconnectDestroys ==
    \A t \in Callers :
      tasks[t].op = "disconnect"
        => /\ IsPrefix(tasks[t].lines, << <<"QUIT">> >>)
           /\ tasks[t].status = "resolved"
                => /\ tasks[t].lines = << <<"QUIT">> >>
                   /\ Codes(t) = <<221>>
                   /\ socket # "open"

\* C29: once an operation has failed with a reply Timeout the control
\* socket is no longer open, and no operation has consumed as many replies
\* as it wrote lines while the server has still to answer one of them.
C29_TimeoutDestroys ==
    \A t \in Callers :
      /\ (tasks[t].status = "rejected"
            /\ tasks[t].result.exception = "FtpTimeoutException")
           => socket # "open"
      /\ (tasks[t].op \in DirectoryOperations /\ tasks[t].lines # <<>> /\ wire # <<>>)
           => Len(tasks[t].replies) < Len(tasks[t].lines)

----------------------------------------------------------------------------
(* getResponse with its two timers (C24, C30): the clock is in ms, the     *)
(* caller is persistent and uses PWD and CWD                               *)

\* the period of the polling interval of getResponse
PollPeriod == 100

\* the values of configuration.timeout
TimeoutValues == {50, 100, 250}

\* no operation starts at this time or later
MaxTime == 200

\* the executor of the promise getResponse returns: setInterval and
\* setTimeout
getResponsePromise(t) ==
    /\ Awaits(t, "response")
    /\ timers.promise # "pending"
    /\ timers' = [timers EXCEPT !.interval = timers.now + PollPeriod,
                                !.timeout = timers.now + timers.config,
                                !.promise = "pending"]
    /\ UNCHANGED <<connVars, features, socket, tasks, dataConn, wire, server, usage,
                   client, timeouts, owners, parseVars, lastIndex>>

\* the callback of responseInterval: with a reply queued it clears both
\* timers and resolves with the head of the queue, else it does nothing
\* and the interval goes on
responseInterval(t) ==
    /\ t \in ActiveCallers
    /\ timers.interval # 0
    /\ timers.interval <= timers.now
    /\ timers.promise = "pending" => Awaits(t, "response")
    /\ IF responseQueue # <<>>
       THEN /\ responseQueue' = Tail(responseQueue)
            /\ owners' = Tail(owners)
            /\ timers' = [timers EXCEPT !.interval = 0, !.timeout = 0,
                                        !.promise = IF @ = "pending" THEN "resolved" ELSE @]
            /\ IF timers.promise = "pending"
               THEN SetTask(t, [SetTop(tasks[t], [Top(t) EXCEPT !.await = "none"])
                                  EXCEPT !.ret = Head(responseQueue),
                                         !.replies = Append(@, [code  |-> Head(responseQueue).code,
                                                                owner |-> Head(owners)])])
               ELSE UNCHANGED tasks
       ELSE /\ timers' = [timers EXCEPT !.interval = timers.now + PollPeriod]
            /\ UNCHANGED <<responseQueue, owners, tasks>>
    /\ UNCHANGED <<responseBuffer, commandBuffer, features, socket, dataConn, wire,
                   server, usage, client, timeouts, parseVars, lastIndex>>

\* a timeout callback that leaves the interval running
timeout_KeepsInterval(t) ==
    /\ t \in ActiveCallers
    /\ timers.timeout # 0
    /\ timers.timeout <= timers.now
    /\ timers.promise = "pending" => Awaits(t, "response")
    /\ timers' = [timers EXCEPT !.timeout = 0,
                                !.promise = IF @ = "pending" THEN "rejected" ELSE @]
    /\ IF timers.promise = "pending"
       THEN SetTask(t, Throw(tasks[t], Exception("FtpTimeoutException", 0)))
       ELSE UNCHANGED tasks
    /\ timeouts' = timeouts + 1
    /\ UNCHANGED <<connVars, features, socket, dataConn, wire, server, usage, client,
                   owners, parseVars, lastIndex>>

\* the callback of timeout: it clears the interval and rejects
timeout(t) ==
    /\ t \in ActiveCallers
    /\ timers.timeout # 0
    /\ timers.timeout <= timers.now
    /\ timers.promise = "pending" => Awaits(t, "response")
    /\ timers' = [timers EXCEPT !.interval = 0, !.timeout = 0,
                                !.promise = IF @ = "pending" THEN "rejected" ELSE @]
    /\ IF timers.promise = "pending"
       THEN SetTask(t, Throw(tasks[t], Exception("FtpTimeoutException", 0)))
       ELSE UNCHANGED tasks
    /\ timeouts' = timeouts + 1
    /\ UNCHANGED <<connVars, features, socket, dataConn, wire, server, usage, client,
                   owners, parseVars, lastIndex>>

\* the times at which the timers that are set fire next
Armed == {timers.interval, timers.timeout} \ {0}

\* time passes, up to the next time a timer fires: a timer fires when it is
\* due, timers due together fire in either order
Tick ==
    /\ Armed # {}
    /\ \A due \in Armed : due > timers.now
    /\ timers' = [timers EXCEPT !.now = Min(Armed)]
    /\ UNCHANGED <<connVars, features, socket, tasks, dataConn, wire, server, usage,
                   client, timeouts, owners, parseVars, lastIndex>>

StepTimer(t) ==
    \/ timers.now < MaxTime /\ Start(t)
    \/ send(t)
    \/ CwdCommand(t)
    \/ PwdCommand(t)
    \/ getCurrentDirectory(t)
    \/ setCurrentDirectory(t)
    \/ getResponsePromise(t)
    \/ responseInterval(t)
    \/ timeout(t)

NextTimer ==
    \/ \E t \in Callers : StepTimer(t)
    \/ ServerReply
    \/ Tick

InitTimer ==
    /\ \E ms \in TimeoutValues :
         LoggedInWith([InitServer EXCEPT !.advertised = FullFeatureList],
                      [f \in FeatureNames |-> TRUE], [NoTimers EXCEPT !.config = ms])
    /\ usage = "timed"

SpecTimer == InitTimer /\ [][NextTimer]_vars

\* the event loop runs the timers that are due, and time passes
SpecTimerFair ==
    /\ SpecTimer
    /\ WF_vars(Tick)
    /\ \A t \in Callers : WF_vars(responseInterval(t)) /\ WF_vars(timeout(t))

\* C24: a getResponse that was called completes, by resolving with the
\* head of the queue or by rejecting when its timeout is due; once it has
\* completed neither of its timers is set, and only a pending getResponse
\* that resolves removes a reply from the queue.
C24_WaitCompletes ==
    /\ [](timers.promise \in {"resolved", "rejected"}
            => timers.interval = 0 /\ timers.timeout = 0)
    /\ [][Len(responseQueue') < Len(responseQueue)
            => timers.promise = "pending" /\ timers'.promise = "resolved"]_vars
    /\ [][(timers.promise = "pending" /\ timers'.promise = "rejected")
            => timers.timeout # 0 /\ timers.timeout <= timers.now]_vars
    /\ (timers.promise = "pending") ~> (timers.promise # "pending")

\* a getResponse ended by its timeout, and its timers are cleared
C24_Witness ==
    /\ timers.promise = "rejected"
    /\ timers.interval = 0
    /\ \E t \in Callers :
         /\ tasks[t].status = "rejected"
         /\ tasks[t].result.exception = "FtpTimeoutException"

\* C30: when a getResponse rejects with Timeout the reply queue is empty.
C30_TimeoutOnlyIfEmpty ==
    [][(timers.promise = "pending" /\ timers'.promise = "rejected")
         => responseQueue = <<>>]_vars

----------------------------------------------------------------------------
(* Transfers on a data connection whose peer may stay silent, and the      *)
(* replies that open and end a transfer (C25, C32)                         *)

\* what the caller's own code and the event loop do
StepTransfer(t) ==
    \/ send(t)
    \/ getResponse(t)
    \/ SizeCommand(t)
    \/ FtpPassiveModeCommand(t)
    \/ FtpListCommand(t)
    \/ StoreCommand(t)
    \/ FtpRetrieveFileCommand(t)
    \/ getFiles(t)
    \/ upload(t)
    \/ download(t)
    \/ DataConnected(t)
    \/ DataEnd(t)
    \/ FileStreamEnd(t)

\* what the caller, the network and the file system may do or not
EventTransfer(t) ==
    \/ Start(t)
    \/ DataConnectFails(t)
    \/ DataSocketError(t)
    \/ FileStreamError(t)

NextTransfer ==
    \/ \E t \in Callers : StepTransfer(t) \/ EventTransfer(t)
    \/ ServerReply
    \/ ServerFinalReply
    \/ ServerTransferEnds

InitTransfer ==
    /\ \E fl \in FeatureLists :
         LoggedInWith([InitServer EXCEPT !.advertised = fl],
                      [f \in FeatureNames |-> f \in Range(fl)], NoTimers)
    /\ usage = "transfers"

SpecTransfer == InitTransfer /\ [][NextTransfer]_vars

\* the event loop runs every continuation and handler that is ready; what
\* the server and the network do, and when, is left open
SpecTransferFair ==
    /\ SpecTransfer
    /\ \A t \in Callers : WF_vars(StepTransfer(t))

\* the caller waits in download or readToEnd on an open data connection
\* that the server has not closed
WaitsForData(t) ==
    /\ Awaits(t, "download") \/ Awaits(t, "readToEnd")
    /\ dataConn.state = "open"
    /\ ~dataConn.peerClosed

\* C25: a wait in download or readToEnd on a data connection that the
\* server keeps open does not last forever: the server closes the
\* connection after all, or the wait ends and the operation returns.
C25_TransferBounded ==
    \A t \in Callers :
      WaitsForData(t) ~> (dataConn.peerClosed \/ tasks[t].status # "running")

TransferCommands == {"FtpListCommand", "StoreCommand", "FtpRetrieveFileCommand"}

\* the command has consumed the reply to its transfer line and looks at it
AnswersTransferLine(t) ==
    \E cmd \in TransferCommands : At(t, cmd, "response")

\* the command is past a reply 150 to its transfer line
PastOpening(t) ==
    /\ tasks[t].status = "running"
    /\ tasks[t].stack # <<>>
    /\ Top(t).cmd \in TransferCommands
    /\ Top(t).pc \in {"parse", "final", "check"}

\* a reply other than 150 to the transfer line: the command fails at once,
\* the data connection is destroyed, nothing was read from or written to a
\* file, and no reply is consumed
C32_Refused ==
    [][\A t \in Callers :
         (AnswersTransferLine(t) /\ tasks[t].ret.code # 150 /\ tasks' # tasks)
           => /\ tasks'[t].status = "rejected"
              /\ tasks'[t].result.exception = "FtpException"
              /\ tasks'[t].replies = tasks[t].replies
              /\ tasks'[t].lines = tasks[t].lines
              /\ dataConn'.state = "destroyed"
              /\ dataConn'.fStream = "none"]_vars

\* a transfer that ended after 150, not by an error of the data socket or
\* of the local file: the final reply was consumed, and the operation
\* failed if and only if its code is 400 or more
C32_FinalDecides ==
    \A t \in Callers :
      ( /\ tasks[t].op \in OperationsOf("transfers")
        /\ tasks[t].status \in {"resolved", "rejected"}
        /\ 150 \in Range(Codes(t))
        /\ tasks[t].status = "rejected" => tasks[t].result.exception # "Error" )
      => /\ Codes(t)[Len(Codes(t)) - 1] = 150
         /\ (tasks[t].status = "rejected") <=> (Codes(t)[Len(Codes(t))] >= 400)

\* C32: for LIST/MLSD, STOR and RETR a reply other than 150 to the transfer
\* line makes the command fail with its data connection destroyed, nothing
\* transferred and no further reply consumed; after 150 the command fails
\* exactly when the code of the final reply is 400 or more: once such a
\* reply has arrived for a command that is past 150, the command fails.
C32_TransferReplies ==
    /\ C32_Refused
    /\ []C32_FinalDecides
    /\ \A t \in Callers :
         ( /\ PastOpening(t)
           /\ responseQueue # <<>>
           /\ Head(responseQueue).code >= 400 ) ~> (tasks[t].status = "rejected")

\* C33: when download or upload fails on the final reply of its transfer,
\* the exception carries the code of that final reply, never the 150 of the
\* reply that opened the transfer.
C33_FinalCodeRaised ==
    \A t \in Callers :
      ( /\ tasks[t].op \in {"download", "upload"}
        /\ tasks[t].status = "rejected"
        /\ tasks[t].result.exception = "FtpException"
        /\ 150 \in Range(Codes(t)) )
      => /\ tasks[t].result.code = Codes(t)[Len(Codes(t))]
         /\ tasks[t].result.code # 150

\* the caller writes a transfer line in this step
WritesTransferLine(t) ==
    /\ Len(tasks'[t].lines) = Len(tasks[t].lines) + 1
    /\ Verb(tasks'[t].lines[Len(tasks'[t].lines)]) \in TransferVerbs

\* C34: when a LIST/MLSD, STOR or RETR line is written, the line written
\* just before it is an EPSV of its own, whose reply 229 was the last reply
\* consumed, and the data connection is connected, on the port of that
\* reply, to the server, which has accepted it; a listing line is MLSD
\* when the server advertised MLSD and LIST otherwise.
C34_PassiveBeforeTransfer ==
    [][\A t \in Callers :
         WritesTransferLine(t)
           => /\ tasks[t].lines # <<>>
              /\ tasks[t].lines[Len(tasks[t].lines)] = <<"EPSV">>
              /\ Codes(t) # <<>>
              /\ Codes(t)[Len(Codes(t))] = 229
              /\ dataConn.state = "open"
              /\ dataConn.port = FTP_FAKE_DATA_PORT
              /\ server.accepted
              /\ LET verb == Verb(tasks'[t].lines[Len(tasks'[t].lines)])
                 IN  /\ verb = "MLSD" => "MLSD" \in Range(server.advertised)
                     /\ verb = "LIST" => "MLSD" \notin Range(server.advertised)]_vars

\* a listing line MLSD and a RETR line were written on connected data
\* connections
C34_Witness ==
    \E t \in Callers :
      /\ tasks[t].lines # <<>>
      /\ Verb(tasks[t].lines[Len(tasks[t].lines)]) \in {"MLSD", "RETR"}
      /\ dataConn.state = "open"
      /\ server.accepted

----------------------------------------------------------------------------
(* The bytes of a listing: readToEnd and the chunks of the data socket     *)
(* (C35)                                                                   *)

StepRead(t) ==
    \/ Start(t)
    \/ send(t)
    \/ getResponse(t)
    \/ FtpPassiveModeCommand(t)
    \/ FtpListCommand(t)
    \/ getFiles(t)
    \/ DataConnected(t)
    \/ readToEnd_onData(t)
    \/ DataEnd(t)

NextRead ==
    \/ \E t \in Callers : StepRead(t)
    \/ ServerReply
    \/ ServerTransferEnds
    \/ ServerFinalReply

InitRead ==
    /\ \E fl \in FeatureLists :
         LoggedInWith([InitServer EXCEPT !.advertised = fl],
                      [f \in FeatureNames |-> f \in Range(fl)], NoTimers)
    /\ usage = "listing"

SpecRead == InitRead /\ [][NextRead]_vars

\* C35: when the peer has closed and readToEnd's end handler has run, the
\* buffer it built for the caller is the concatenation, in arrival order,
\* of all the chunks the data socket delivered.
C35_ReadsAllBytes ==
    dataConn.thrown => dataConn.finalBuffer = dataConn.received

----------------------------------------------------------------------------
(* A line whose write fails (C36)                                          *)

\* the commands that call connection.write without awaiting its promise
UnawaitedWrites ==
    {"SizeCommand", "LastModifiedTimeCommand", "ChangeModificationTime"}

\* the socket reports an error for the line written last, before the line
\* reached the server: the promise of write is rejected with a
\* FtpNetworkException and the socket is destroyed.  A command that awaits
\* the write throws the exception; in a command that does not, the
\* rejection is unhandled, and the runtime either only reports it, so that
\* the command waits on for the reply, or ends the process
writeFails(t) ==
    /\ Awaits(t, "response")
    /\ socket = "open"
    /\ wire # <<>>
    /\ tasks[t].lines # <<>>
    /\ wire[Len(wire)] = [line |-> tasks[t].lines[Len(tasks[t].lines)], from |-> t]
    /\ wire' = SubSeq(wire, 1, Len(wire) - 1)
    /\ socket' = "closed"
    /\ IF Top(t).cmd \in UnawaitedWrites
       THEN /\ UNCHANGED tasks
            /\ client' \in {client, "exited"}
       ELSE /\ SetTask(t, Throw(tasks[t], Exception("FtpNetworkException", 0)))
            /\ UNCHANGED client
    /\ UNCHANGED <<connVars, features, dataConn, server, usage, timeouts, owners,
                   parseVars, lastIndex, timers>>

StepWrite(t) ==
    \/ Start(t)
    \/ send(t)
    \/ getResponse(t)
    \/ getResponseTimeout(t)
    \/ PwdCommand(t)
    \/ SizeCommand(t)
    \/ LastModifiedTimeCommand(t)
    \/ getCurrentDirectory(t)
    \/ getFileSize(t)
    \/ getLastModificationTime(t)
    \/ ChangeModificationTime(t)
    \/ setModificationTime(t)
    \/ writeFails(t)

NextWrite ==
    \/ \E t \in Callers : StepWrite(t)
    \/ ServerReply

InitWrite ==
    /\ \E fl \in FeatureLists : \E s \in Stamps :
         LoggedInWith([InitServer EXCEPT !.advertised = fl, !.modify = s],
                      [f \in FeatureNames |-> f \in Range(fl)], NoTimers)
    /\ usage = "writing"

SpecWrite == InitWrite /\ [][NextWrite]_vars

\* the write of the caller's last line fails in this step
WriteFailed(t) ==
    /\ Awaits(t, "response")
    /\ socket = "open"
    /\ socket' = "closed"
    /\ Len(wire') < Len(wire)

\* C36: in the step in which the write of a command line fails the
\* enclosing operation fails with a Network error, whatever the command;
\* no operation ends as a Timeout on a socket that a failed write closed.
C36_WriteFailureRaised ==
    /\ [][\A t \in Callers :
            WriteFailed(t)
              => /\ tasks'[t].status = "rejected"
                 /\ tasks'[t].result.exception = "FtpNetworkException"]_vars
    /\ [](\A t \in Callers :
            (socket = "closed" /\ tasks[t].status = "rejected")
              => tasks[t].result.exception # "FtpTimeoutException")

----------------------------------------------------------------------------
(* The modification time: MDTM and MFMT (C37 - C39)                        *)

\* C37: every getLastModificationTime whose MDTM line was answered 213 with
\* a timestamp of 14 digits returns the parsed time, whatever calls came
\* before it.
C37_EveryCallParses ==
    \A t \in Callers :
      ( /\ tasks[t].op = "getLastModificationTime"
        /\ tasks[t].status \in {"resolved", "rejected"}
        /\ Codes(t) = <<213>> )
      => tasks[t].status = "resolved"

\* the fields a timestamp YYYYMMDDHHMMSS names, MM being the calendar month
StampFields(g) ==
    [year    |-> ParseIntDigits(SubSeq(g, 1, 4)),
     month   |-> ParseIntDigits(SubSeq(g, 5, 6)),
     date    |-> ParseIntDigits(SubSeq(g, 7, 8)),
     hours   |-> ParseIntDigits(SubSeq(g, 9, 10)),
     minutes |-> ParseIntDigits(SubSeq(g, 11, 12)),
     seconds |-> ParseIntDigits(SubSeq(g, 13, 14))]

\* C38: getLastModificationTime returns the UTC time with exactly the
\* fields of the timestamp in the 213 reply, the month digits being the
\* calendar month (213 20180608233854 is the 8th of June 2018, 23:38:54).
C38_StampIsUtcTime ==
    \A t \in Callers :
      (tasks[t].op = "getLastModificationTime" /\ tasks[t].status = "resolved")
        => tasks[t].result = StampFields(server.modify)

\* the timestamp in an MFMT line written for the arguments arg
WrittenStamp(line, arg) == SubSeq(line, 3, Len(line) - 1 - Len(arg[1]))

\* C39: the timestamp setModificationTime writes for the Date that parsing
\* the MDTM reply s gives is s again, and has 14 digits.
C39_StampRoundTrip ==
    \A t \in Callers :
      (tasks[t].op = "setModificationTime" /\ tasks[t].lines # <<>>)
        => \A s \in Stamps :
             tasks[t].arg[2] = DateOf(s)
               => /\ WrittenStamp(tasks[t].lines[1], tasks[t].arg) = s
                  /\ Len(WrittenStamp(tasks[t].lines[1], tasks[t].arg)) = 14

----------------------------------------------------------------------------
(* Directory creation (C11 - C13): the session starts logged in, on a      *)
(* server whose directory tree grows with every MKD it accepts.            *)

\* the directory trees the server may start with
Trees ==
    { {<<"/">>},
      {<<"/">>, <<"/", "a">>},
      {<<"/">>, <<"/", "a">>, <<"/", "a", "/", "b">>,
       <<"/", "a", "/", "b", "/", "c">>} }

InitMkd ==
    /\ \E tree \in Trees :
         LoggedInOn([InitServer EXCEPT !.advertised = FullFeatureList, !.dirs = tree])
    /\ usage = "creating"

StepMkd(t) ==
    \/ Start(t)
    \/ send(t)
    \/ getResponse(t)
    \/ CwdCommand(t)
    \/ MkDirCommand(t)
    \/ createDir(t)

NextMkd ==
    \/ \E t \in Callers : StepMkd(t)
    \/ ServerReply

SpecMkd == InitMkd /\ [][NextMkd]_vars

PathABC == <<"/", "a", "/", "b", "/", "c">>

MkdLine(name) == <<"MKD", " ">> \o name

\* the lines and reply codes of createDir("/a/b/c", true) when only /a exists
LinesABC ==
    << CwdLine(<<"/">>), CwdLine(<<"/", "a">>),
       CwdLine(<<"/", "a", "/", "b">>), MkdLine(<<"b">>), CwdLine(<<"/", "a", "/", "b">>),
       CwdLine(PathABC), MkdLine(<<"c">>), CwdLine(PathABC) >>

CodesABC == <<250, 250, 550, 257, 250, 550, 257, 250>>

RecursiveCreate(t) == tasks[t].op = "createDir" /\ tasks[t].arg[2]

\* C11: createDir("/a/b/c", true), answered as by a server on which only /a
\* exists, writes exactly CWD /, CWD /a, CWD /a/b, MKD b, CWD /a/b,
\* CWD /a/b/c, MKD c, CWD /a/b/c in this order, each line after the reply to
\* the previous one; and in every recursive createDir each MKD line comes
\* right after a CWD <prefix> that was answered >= 300, names the last
\* component of that prefix, goes on only when answered 257, and is followed
\* by CWD <prefix>.
C11_RecursiveSequence ==
    \A t \in Callers :
      RecursiveCreate(t) =>
        /\ Len(tasks[t].lines) <= Len(Codes(t)) + 1
        /\ (tasks[t].arg[1] = PathABC /\ IsPrefix(Codes(t), CodesABC))
           => /\ IsPrefix(tasks[t].lines, LinesABC)
              /\ Codes(t) = CodesABC
                 => (tasks[t].lines = LinesABC /\ tasks[t].status # "rejected")
              /\ tasks[t].status = "resolved" => Codes(t) = CodesABC
        /\ \A i \in 1..Len(tasks[t].lines) :
             Verb(tasks[t].lines[i]) = "MKD" =>
               /\ i > 1
               /\ Verb(tasks[t].lines[i - 1]) = "CWD"
               /\ Codes(t)[i - 1] >= 300
               /\ \E k \in 1..Len(tasks[t].lines[i - 1]) :
                    /\ tasks[t].lines[i - 1][k] = "/"
                    /\ Operand(tasks[t].lines[i]) =
                         SubSeq(tasks[t].lines[i - 1], k + 1, Len(tasks[t].lines[i - 1]))
               /\ \A k \in 1..Len(Operand(tasks[t].lines[i])) :
                    Operand(tasks[t].lines[i])[k] # "/"
               /\ (Len(Codes(t)) >= i /\ Codes(t)[i] # 257)
                  => (Len(tasks[t].lines) = i /\ tasks[t].status # "resolved")
               /\ Len(tasks[t].lines) > i => tasks[t].lines[i + 1] = tasks[t].lines[i - 1]

\* /a/b/c created below /a, the call resolved
C11_Witness ==
    \E t \in Callers :
      /\ RecursiveCreate(t)
      /\ tasks[t].arg[1] = PathABC
      /\ tasks[t].status = "resolved"
      /\ tasks[t].lines = LinesABC
      /\ Codes(t) = CodesABC
      /\ PathABC \in server.dirs

\* C12: a recursive createDir writes MKD only for segments of the requested
\* path, writes no MKD at all when every CWD probe of a segment succeeded,
\* and probes no directory beyond the last segment of the path.
C12_RecursionTerminates ==
    \A t \in Callers :
      RecursiveCreate(t) =>
        \A i \in 1..Len(tasks[t].lines) :
          /\ Verb(tasks[t].lines[i]) = "MKD" =>
               \E k \in 1..Len(Segments(tasks[t].arg[1])) :
                 Operand(tasks[t].lines[i]) = Segments(tasks[t].arg[1])[k]
          /\ Verb(tasks[t].lines[i]) = "CWD" =>
               Len(Segments(Operand(tasks[t].lines[i]))) <= Len(Segments(tasks[t].arg[1]))

\* C13: once createDir has resolved, the server's current directory is the
\* directory that was asked for.
C13_EntersCreatedDirectory ==
    \A t \in Callers :
      (tasks[t].op = "createDir" /\ tasks[t].status = "resolved")
        => server.cwd = tasks[t].arg[1]

----------------------------------------------------------------------------
(* The parser specification: one control byte stream, cut into chunks at   *)
(* arbitrary places, each chunk passed to onData.                          *)

MaxLines == 2

\* the reply lines the server's stream is made of
StreamLines ==
    { <<"2", "2", "0", " ", "h">>,          \* single-line reply
      <<"2", "1", "1", "-", "F">>,          \* opener of a multi-line reply
      <<" ", "U">>,                         \* continuation line
      <<"2", "1", "1", " ", "E">>,          \* closing line
      <<"2", "1", "1", "0", " ", "E">> }    \* four digits and text

RECURSIVE JoinLines(_)
JoinLines(ls) ==
    IF ls = <<>> THEN <<>> ELSE Head(ls) \o NEW_LINE \o JoinLines(Tail(ls))

Streams ==
    { JoinLines(ls) : ls \in UNION { [1..n -> StreamLines] : n \in 1..MaxLines } }

\* the replies the parser produces when the whole stream is one chunk
OneChunk(s) == parseResponse(<<>>, <<>>, s).response

InitParse ==
    /\ stream \in Streams
    /\ pos = 0
    /\ lastIndex = 0
    /\ timers = NoTimers
    /\ responseBuffer = <<>>
    /\ commandBuffer = <<>>
    /\ responseQueue = <<>>
    /\ features = NoFeatures
    /\ socket = "open"
    /\ tasks = [t \in Callers |-> IdleTask]
    /\ dataConn = NoDataConn
    /\ wire = <<>>
    /\ server = InitServer
    /\ usage = "awaited"
    /\ client = "connected"
    /\ timeouts = 0
    /\ owners = <<>>

\* the socket's "data" event with the next k bytes of the stream
DataEvent ==
    \E k \in 1..(Len(stream) - pos) :
        /\ onData(SubSeq(stream, pos + 1, pos + k))
        /\ pos' = pos + k
        /\ UNCHANGED <<stream, features, socket, tasks, dataConn, wire, server,
                       usage, client, timeouts, owners, lastIndex, timers>>

NextParse == DataEvent

SpecParse == InitParse /\ [][NextParse]_vars

\* C3: however the stream is cut into chunks, the replies queued once the
\* whole stream was delivered are those of the stream delivered as one chunk.
C3_ChunkingIndependent ==
    pos = Len(stream) => responseQueue = OneChunk(stream)

\* the lines of the stream
LinesOf(s) == SelectNotBlank(SplitNewLine(s, <<>>))

\* the line is NNN- and text: it opens a multi-line reply
OpensReply(l) == ThreeDigits(l) /\ Len(l) >= 4 /\ l[4] = "-"

\* the line is NNN, a space and text, NNN the code of the opening line
ClosesReply(l, open) == Len(l) >= 4 /\ SubSeq(l, 1, 3) = SubSeq(open, 1, 3) /\ l[4] = " "

\* C28: when the first line of the stream opens a multi-line reply and the
\* whole stream was parsed, a reply was emitted only if a later line starts
\* with the code of the opening line and a space, and the first reply
\* emitted carries that code.
C28_SameCodeCloses ==
    ( /\ pos = Len(stream)
      /\ responseQueue = OneChunk(stream)
      /\ OpensReply(LinesOf(stream)[1]) )
      => IF \E i \in 2..Len(LinesOf(stream)) :
                ClosesReply(LinesOf(stream)[i], LinesOf(stream)[1])
         THEN /\ responseQueue # <<>>
              /\ Head(responseQueue).code =
                   ParseIntDigits(SubSeq(LinesOf(stream)[1], 1, 3))
         ELSE responseQueue = <<>>

====
